---- MODULE Spec2Model ----
(***************************************************************************)
(* Voice detection service (app/services/voice_detector.py): construction  *)
(* of the VoiceDetector, heuristic scoring, trained-model scoring and the  *)
(* explanation text, as a state machine.                                   *)
(*                                                                         *)
(* Numbers.  Python floats are IEEE-754 doubles.  The score accumulators   *)
(* are modelled twice: `cents` is the exact decimal sum of the weight      *)
(* literals in hundredths, and (hi, lo) is the double the code really      *)
(* holds, as the integer hi * 2^28 + lo in units of 2^-56.  Sums and       *)
(* quotients of doubles are rounded to 53 significant bits, ties to even,  *)
(* as the hardware does, so that two scores that are equal as decimals but *)
(* differ in their last bit compare as the code compares them.             *)
(* Feature values are integers in the unit of the feature.                 *)
(***************************************************************************)
EXTENDS Integers, Sequences, FiniteSets, TLC

\* ------------------------------------------------------------------ bounds

\* jitter values are the multiples of 0.02 / NoiseRes inside the jitter interval
NoiseRes == 1
\* the feature vectors scored differ from the all-neutral profile in at most
\* MaxDev signals, or from a uniform profile in fewer than MaxDev signals
MaxDev == 2
\* length of the per-coefficient MFCC vectors (20 in extract_features)
MfccLen == 2
\* number of spectral-contrast bands (7 in librosa)
ContrastLen == 2
\* the trained model's probabilities are the multiples of 1 / ProbSteps
ProbSteps == 2
\* number of chroma bins (12 in librosa)
ChromaLen == 2
\* a dictionary handed to _flatten_features lacks at most MaxAbsent keys
MaxAbsent == 2

\* the temporary directory has NumNames file names to choose from
NumNames == 3

\* ------------------------------------------------- IEEE-754 double arithmetic

Base == 16384 * 16384   \* 2^28, one limb

RECURSIVE Pow2(_)
Pow2(n) == IF n <= 0 THEN 1 ELSE 2 * Pow2(n - 1)

RECURSIVE BitLen(_)
BitLen(n) == IF n <= 0 THEN 0 ELSE 1 + BitLen(n \div 2)

\* two-limb naturals [hi, lo], value hi * Base + lo
L2(hi, lo) == [hi |-> hi, lo |-> lo]
L2Zero == L2(0, 0)
L2Norm(hi, lo) == L2(hi + (lo \div Base), lo % Base)
L2Add(x, y) == L2Norm(x.hi + y.hi, x.lo + y.lo)
L2Sub(x, y) == IF x.lo >= y.lo THEN L2(x.hi - y.hi, x.lo - y.lo)
               ELSE L2(x.hi - y.hi - 1, x.lo + Base - y.lo)
L2GT(x, y) == x.hi > y.hi \/ (x.hi = y.hi /\ x.lo > y.lo)
L2GE(x, y) == x.hi > y.hi \/ (x.hi = y.hi /\ x.lo >= y.lo)
L2Dbl(x) == L2Norm(2 * x.hi, 2 * x.lo)
L2BitLen(x) == IF x.hi > 0 THEN 28 + BitLen(x.hi) ELSE BitLen(x.lo)

\* x rounded to 53 significant bits, ties to even (x below 2^59)
RoundTo53(x) ==
    LET d == L2BitLen(x) - 53 IN
    IF d <= 0 THEN x
    ELSE LET q    == Pow2(d)
             r    == x.lo % q
             down == x.lo - r
             up   == r > q \div 2 \/ (r = q \div 2 /\ (down \div q) % 2 = 1)
         IN  L2Norm(x.hi, IF up THEN down + q ELSE down)

\* the double x + y of two doubles given in units of 2^-56 (the operands are
\* bound by a set constructor so that they are evaluated once)
FloatAdd(x, y) == CHOOSE z \in {RoundTo53(L2Add(a, b)) : a \in {x}, b \in {y}} : TRUE

\* a double quotient: value m * 2^(e - 52), m = hi * Base + lo in [2^52, 2^53),
\* or zero (m = 0)
FZero == [e |-> 0, hi |-> 0, lo |-> 0]

RECURSIVE NormShift(_, _, _)
\* the least s with a * 2^s >= t (a > 0)
NormShift(a, t, s) == IF L2GE(a, t) THEN s ELSE NormShift(L2Dbl(a), t, s + 1)

RECURSIVE ShiftLeft(_, _)
ShiftLeft(a, s) == IF s = 0 THEN a ELSE ShiftLeft(L2Dbl(a), s - 1)

\* one step of long division: the next quotient bit of r / t appended to m
DivStep(r, t, m) ==
    LET r2  == L2Dbl(r)
        bit == L2GE(r2, t)
    IN  [r |-> IF bit THEN L2Sub(r2, t) ELSE r2,
         m |-> L2Norm(2 * m.hi, 2 * m.lo + (IF bit THEN 1 ELSE 0))]

RECURSIVE DivBits(_, _, _, _)
\* long division: n more quotient bits of r / t appended to the mantissa m
\* (the first half of the bits, then the rest, which keeps the recursion shallow)
DivBits(r, t, m, n) ==
    IF n = 0 THEN [r |-> r, m |-> m]
    ELSE IF n = 1 THEN DivStep(r, t, m)
    ELSE CHOOSE res \in
           { DivBits(f.r, t, f.m, n - (n \div 2)) : f \in {DivBits(r, t, m, n \div 2)} } : TRUE

\* the correctly rounded quotient a / t of two-limb values 0 <= a <= t, t > 0
DivRound(a, t) ==
    IF a = L2Zero THEN FZero
    ELSE LET s     == NormShift(a, t, 0)
             a0    == ShiftLeft(a, s)
             body  == DivBits(L2Sub(a0, t), t, L2(0, 1), 52)
             guard == DivBits(body.r, t, L2Zero, 1)
             up    == guard.m.lo = 1 /\ (guard.r # L2Zero \/ body.m.lo % 2 = 1)
             m     == IF up THEN L2Norm(body.m.hi, body.m.lo + 1) ELSE body.m
         IN  IF L2BitLen(m) > 53 THEN [e |-> 1 - s, hi |-> m.hi \div 2, lo |-> 0]
             ELSE [e |-> 0 - s, hi |-> m.hi, lo |-> m.lo]

\* the double a / t of two doubles
FloatDiv(a, t) == CHOOSE q \in {DivRound(x, y) : x \in {a}, y \in {t}} : TRUE

FloatGT(p, q) ==
    IF q = FZero THEN p # FZero
    ELSE /\ p # FZero
         /\ \/ p.e > q.e
            \/ p.e = q.e /\ L2GT(L2(p.hi, p.lo), L2(q.hi, q.lo))

\* exact rationals [n, d], d > 0: the decimal reading of a float
Rat(n, d) == [n |-> n, d |-> d]
RatLT(x, y) == x.n * y.d < y.n * x.d
RatAdd(x, y) == Rat(x.n * y.d + y.n * x.d, x.d * y.d)
RatMax(x, y) == IF RatLT(x, y) THEN y ELSE x
RatMin(x, y) == IF RatLT(y, x) THEN y ELSE x

RECURSIVE GCD(_, _)
GCD(a, b) == IF b = 0 THEN a ELSE GCD(b, a % b)

\* n is a power of two: a value with such a denominator is held exactly by a double
IsPow2(n) == n = Pow2(BitLen(n) - 1)

\* round(x, 2) in hundredths.  Python rounds the double it holds, half to even;
\* when the exact value lies halfway and the double does not hold it exactly
\* (`exact` false), the last bit of the double decides, so both neighbours are
\* possible results.
Round2(x, exact) ==
    LET q == (100 * x.n) \div x.d
        r == (100 * x.n) % x.d
    IN  IF 2 * r < x.d THEN {q}
        ELSE IF 2 * r > x.d THEN {q + 1}
        ELSE IF exact THEN {IF q % 2 = 0 THEN q ELSE q + 1}
        ELSE {q, q + 1}

\* ------------------------------------------------------------ feature vectors

\* a lookup whose default for an absent number is 1 instead of 0
GetDefaultOne(features, key, default) ==
    IF key \in DOMAIN features THEN features[key]
    ELSE IF key \in {"mfcc_mean", "mfcc_std", "spectral_contrast_mean", "mfcc_delta_mean"}
         THEN default ELSE default + 1

\* features.get(key, default)
Get(features, key, default) ==
    IF key \in DOMAIN features THEN features[key] ELSE default

RECURSIVE SumSeq(_)
SumSeq(s) == IF s = <<>> THEN 0 ELSE Head(s) + SumSeq(Tail(s))

Abs(x) == IF x < 0 THEN 0 - x ELSE x
AbsSeq(s) == [i \in DOMAIN s |-> Abs(s[i])]
SqSeq(s) == [i \in DOMAIN s |-> s[i] * s[i]]
MaxSeq(s) == CHOOSE x \in {s[i] : i \in DOMAIN s} : \A i \in DOMAIN s : s[i] <= x
MinSeq(s) == CHOOSE x \in {s[i] : i \in DOMAIN s} : \A i \in DOMAIN s : x <= s[i]

\* a vector of length n: `first` followed by `rest` repeated
Vec(n, first, rest) == [i \in 1..n |-> IF i = 1 THEN first ELSE rest]

\* The feature vectors handed to scoring.  Each of the ten signals the rules read
\* takes one of four values: 1 (no variation), 2 (on the low threshold), 3 (above
\* the high threshold), 0 (silence: zero mean, or the high threshold itself).
Signals == 1..10

SignalValue(s, v) ==
    CASE s = 1  -> ("pitch_std" :> (CASE v = 1 -> 0 [] v = 2 -> 5 [] v = 3 -> 20 [] OTHER -> 0))
                   @@ ("pitch_mean" :> (IF v = 0 THEN 0 ELSE 100))
      [] s = 2  -> ("spectral_centroid_std" :> (CASE v = 1 -> 0 [] v = 2 -> 200 [] v = 3 -> 600 [] OTHER -> 0))
                   @@ ("spectral_centroid_mean" :> (IF v = 0 THEN 0 ELSE 2000))
      [] s = 3  -> ("zcr_std" :> (CASE v = 1 -> 0 [] v = 2 -> 30 [] v = 3 -> 60 [] OTHER -> 0))
                   @@ ("zcr_mean" :> (IF v = 0 THEN 0 ELSE 100))
      [] s = 4  -> ("rms_std" :> (CASE v = 1 -> 0 [] v = 2 -> 20 [] v = 3 -> 50 [] OTHER -> 0))
                   @@ ("rms_mean" :> (IF v = 0 THEN 0 ELSE 100))
      [] s = 5  -> ("mfcc_std" :> Vec(MfccLen, (CASE v = 1 -> 0 [] v = 2 -> 5 [] v = 3 -> 7 [] OTHER -> 0),
                                               (CASE v = 1 -> 0 [] v = 2 -> 5 [] v = 3 -> 7 [] OTHER -> 0)))
                   @@ ("mfcc_mean" :> Vec(MfccLen, (IF v = 0 THEN 0 ELSE 10), (IF v = 0 THEN 0 ELSE 0 - 10)))
      [] s = 6  -> ("spectral_contrast_mean" :>
                       Vec(ContrastLen, (CASE v = 1 -> 20 [] v = 2 -> 10 [] OTHER -> 0),
                                        (CASE v = 1 -> 20 [] v = 2 -> 20 [] v = 3 -> 30 [] OTHER -> 25)))
      [] s = 7  -> ("mfcc_delta_mean" :>
                       Vec(MfccLen, 0, (CASE v = 1 -> 0 [] v = 2 -> 4 [] v = 3 -> 8 [] OTHER -> 6)))
      [] s = 8  -> ("mel_spec_std" :> (CASE v = 1 -> 0 [] v = 2 -> 8 [] v = 3 -> 16 [] OTHER -> 15))
      [] s = 9  -> ("spectral_bandwidth_std" :> (CASE v = 1 -> 0 [] v = 2 -> 225 [] v = 3 -> 600 [] OTHER -> 0))
                   @@ ("spectral_bandwidth_mean" :> (IF v = 0 THEN 0 ELSE 1500))
      [] OTHER  -> ("spectral_rolloff_std" :> (CASE v = 1 -> 0 [] v = 2 -> 300 [] v = 3 -> 900 [] OTHER -> 0))
                   @@ ("spectral_rolloff_mean" :> (IF v = 0 THEN 0 ELSE 3000))

\* the dictionary extract_features returns for the signal values p
FeatureVector(p) ==
    SignalValue(1, p[1]) @@ SignalValue(2, p[2]) @@ SignalValue(3, p[3]) @@
    SignalValue(4, p[4]) @@ SignalValue(5, p[5]) @@ SignalValue(6, p[6]) @@
    SignalValue(7, p[7]) @@ SignalValue(8, p[8]) @@ SignalValue(9, p[9]) @@
    SignalValue(10, p[10])

\* every signal at the same value b, except the signals of D
Deviations(b, D) == { [s \in Signals |-> IF s \in D THEN a[s] ELSE b] : a \in [D -> 0..3] }

\* every signal neutral (value 2: neither side of its rule) except at most MaxDev,
\* or every signal at value 1 (at value 3) except fewer than MaxDev signals
Profiles ==
    UNION { UNION { Deviations(b, D) :
                    D \in {X \in SUBSET Signals :
                             Cardinality(X) <= (IF b = 2 THEN MaxDev ELSE MaxDev - 1)} } :
            b \in 1..3 }

FeatureInputs == {FeatureVector(p) : p \in Profiles}

\* ------------------------------------------------------------- phrase tables

\* A text is the sequence of its words (the words are joined by single spaces).
AI_INDICATORS ==
    [ pitch_consistency        |-> <<"Unnatural", "pitch", "consistency", "detected">>,
      spectral_uniformity      |-> <<"Unusually", "uniform", "spectral", "distribution", "patterns">>,
      robotic_patterns         |-> <<"Robotic", "speech", "patterns", "and", "mechanical", "rhythm", "detected">>,
      unnatural_pauses         |-> <<"Artificial", "pause", "patterns", "inconsistent", "with", "natural", "speech">>,
      synthetic_harmonics      |-> <<"Synthetic", "harmonic", "structures", "detected">>,
      missing_micro_variations |-> <<"Missing", "natural", "micro-variations", "in", "voice">>,
      perfect_tempo            |-> <<"Unnaturally", "perfect", "tempo", "and", "rhythm">>,
      artificial_smoothness    |-> <<"Artificially", "smooth", "frequency", "transitions">>,
      compressed_dynamics      |-> <<"Compressed", "dynamic", "range", "typical", "of", "TTS", "systems">>,
      metallic_overtones       |-> <<"Metallic", "overtones", "characteristic", "of", "AI", "synthesis">> ]

HUMAN_INDICATORS ==
    [ natural_variation   |-> <<"Natural", "pitch", "and", "rhythm", "variations", "detected">>,
      breathing_patterns  |-> <<"Natural", "breathing", "patterns", "present">>,
      micro_fluctuations  |-> <<"Authentic", "micro-fluctuations", "in", "voice", "quality">>,
      emotional_nuance    |-> <<"Emotional", "nuances", "and", "natural", "expression", "detected">>,
      organic_transitions |-> <<"Organic", "frequency", "transitions", "present">>,
      natural_harmonics   |-> <<"Natural", "harmonic", "overtones", "detected">>,
      dynamic_range       |-> <<"Natural", "dynamic", "range", "in", "voice", "expression">>,
      human_imperfections |-> <<"Subtle", "human", "imperfections", "detected", "in", "speech">> ]

\* str.lower() of one word
LowerWord(w) ==
    CASE w = "Unnatural" -> "unnatural"     [] w = "Unusually" -> "unusually"
      [] w = "Robotic" -> "robotic"         [] w = "Artificial" -> "artificial"
      [] w = "Synthetic" -> "synthetic"     [] w = "Missing" -> "missing"
      [] w = "Unnaturally" -> "unnaturally" [] w = "Artificially" -> "artificially"
      [] w = "Compressed" -> "compressed"   [] w = "Metallic" -> "metallic"
      [] w = "Natural" -> "natural"         [] w = "Authentic" -> "authentic"
      [] w = "Emotional" -> "emotional"     [] w = "Organic" -> "organic"
      [] w = "Subtle" -> "subtle"           [] w = "TTS" -> "tts"
      [] w = "AI" -> "ai"                   [] OTHER -> w

\* a lower-case word with its first letter in upper case
UpperFirst(w) ==
    CASE w = "unnatural" -> "Unnatural"   [] w = "compressed" -> "Compressed"
      [] w = "robotic" -> "Robotic"       [] w = "synthetic" -> "Synthetic"
      [] w = "natural" -> "Natural"       [] w = "authentic" -> "Authentic"
      [] OTHER -> w

\* str.lower()
Lower(text) == [i \in DOMAIN text |-> LowerWord(text[i])]

\* str.capitalize(): first letter upper case, all the others lower case
Capitalize(text) ==
    [i \in DOMAIN text |-> IF i = 1 THEN UpperFirst(LowerWord(text[i])) ELSE LowerWord(text[i])]

\* ------------------------------------------------------------ heuristic rules

AI_GENERATED == "AI_GENERATED"
HUMAN == "HUMAN"

\* a weight literal: its decimal reading and the double Python holds for it
Weight(c, hi, lo) == [cents |-> c, f |-> L2(hi, lo)]
W007 == Weight(7, 18790481, 246960620)
W008 == Weight(8, 21474836, 128849019)
W009 == Weight(9, 24159191, 10737418)
W010 == Weight(10, 26843545, 161061274)
W012 == Weight(12, 32212254, 193273528)
W013 == Weight(13, 34896609, 75161928)
W015 == Weight(15, 40265318, 107374182)

\* score += weight
ScoreAdd(score, w) == [cents |-> score.cents + w.cents, f |-> FloatAdd(score.f, w.f)]

\* the accumulators at the top of _heuristic_detection
EmptyAcc == [ai_score |-> Weight(0, 0, 0), human_score |-> Weight(0, 0, 0),
             detected_indicators |-> <<>>]

\* ai_score += w; detected_indicators.append(tag) for each tag given
AddAI(acc, w, tags) ==
    [acc EXCEPT !.ai_score = ScoreAdd(@, w), !.detected_indicators = @ \o tags]

\* a human branch that adds its weight to both totals
AddHumanAndAI(acc, w, tags) ==
    [acc EXCEPT !.human_score = ScoreAdd(@, w), !.ai_score = ScoreAdd(@, w),
                !.detected_indicators = @ \o tags]

\* human_score += w; detected_indicators.append(tag) for each tag given
AddHuman(acc, w, tags) ==
    [acc EXCEPT !.human_score = ScoreAdd(@, w), !.detected_indicators = @ \o tags]

\* std / mean if mean > 0 else 0
Ratio(std, mean) == IF mean > 0 THEN Rat(std, mean) ELSE Rat(0, 1)

\* ratio < c / 100 and ratio > c / 100 (integer features: the quotient of two
\* small integers and a two-decimal literal compare as doubles the way they
\* compare exactly)
Below(ratio, c) == 100 * ratio.n < c * ratio.d
Above(ratio, c) == 100 * ratio.n > c * ratio.d

\* one two-sided rule: below the low threshold the weight goes to ai_score, above
\* the high threshold to human_score
Threshold(acc, ratio, low, high, w, aiTags, humanTags) ==
    IF Below(ratio, low) THEN AddAI(acc, w, aiTags)
    ELSE IF Above(ratio, high) THEN AddHuman(acc, w, humanTags)
    ELSE acc

\* 1. pitch consistency
RulePitch(acc, features) ==
    LET pitch_std  == Get(features, "pitch_std", 0)
        pitch_mean == Get(features, "pitch_mean", 0)
    IN  IF pitch_mean > 0
        THEN Threshold(acc, Ratio(pitch_std, pitch_mean), 5, 15, W015,
                       <<"pitch_consistency">>, <<"natural_variation">>)
        ELSE acc

\* 2. spectral centroid variation
RuleCentroid(acc, features) ==
    LET spectral_centroid_std  == Get(features, "spectral_centroid_std", 0)
        spectral_centroid_mean == Get(features, "spectral_centroid_mean", 1)
    IN  Threshold(acc, Ratio(spectral_centroid_std, spectral_centroid_mean), 10, 25, W012,
                  <<"spectral_uniformity">>, <<"organic_transitions">>)

\* 3. zero crossing rate
RuleZcr(acc, features) ==
    LET zcr_std  == Get(features, "zcr_std", 0)
        zcr_mean == Get(features, "zcr_mean", 0)
    IN  Threshold(acc, Ratio(zcr_std, zcr_mean), 30, 50, W010,
                  <<"robotic_patterns">>, <<"micro_fluctuations">>)

\* 4. RMS energy dynamics
RuleRms(acc, features) ==
    LET rms_std  == Get(features, "rms_std", 0)
        rms_mean == Get(features, "rms_mean", 0)
    IN  Threshold(acc, Ratio(rms_std, rms_mean), 20, 40, W010,
                  <<"compressed_dynamics">>, <<"dynamic_range">>)

\* 5. MFCC: np.mean(mfcc_std) / (np.mean(np.abs(mfcc_mean)) + 1e-6), thresholds
\* 0.3 and 0.6.  With A = sum(mfcc_std) over n entries and B = sum(|mfcc_mean|)
\* over m entries, (A / n) / (B / m + 1e-6) < 3 / 10 is
\* 10 * A * m * 10^6 < 3 * n * (B * 10^6 + m).
RuleMfcc(acc, features) ==
    LET mfcc_mean == Get(features, "mfcc_mean", <<>>)
        mfcc_std  == Get(features, "mfcc_std", <<>>)
        lhs == 10 * SumSeq(mfcc_std) * Len(mfcc_mean) * 1000000
        rhs == Len(mfcc_std) * (SumSeq(AbsSeq(mfcc_mean)) * 1000000 + Len(mfcc_mean))
    IN  IF Len(mfcc_std) > 0 /\ Len(mfcc_mean) > 0
        THEN IF lhs < 3 * rhs THEN AddAI(acc, W013, <<"artificial_smoothness">>)
             ELSE IF lhs > 6 * rhs THEN AddHuman(acc, W013, <<"natural_harmonics">>)
             ELSE acc
        ELSE acc

\* 6. spectral contrast
RuleContrast(acc, features) ==
    LET spectral_contrast == Get(features, "spectral_contrast_mean", <<>>)
        contrast_range == IF Len(spectral_contrast) > 1
                          THEN MaxSeq(spectral_contrast) - MinSeq(spectral_contrast) ELSE 0
    IN  IF Len(spectral_contrast) > 0
        THEN IF contrast_range < 10 THEN AddAI(acc, W008, <<"synthetic_harmonics">>)
             ELSE IF contrast_range > 25 THEN AddHuman(acc, W008, <<"emotional_nuance">>)
             ELSE acc
        ELSE acc

\* 7. tempo regularity: np.std(mfcc_delta) against 1.0 and 3.0.  The variance of
\* x[1..n] is (n * sum(x^2) - sum(x)^2) / n^2, and std < c is variance < c^2.
RuleTempo(acc, features) ==
    LET mfcc_delta == Get(features, "mfcc_delta_mean", <<>>)
        n   == Len(mfcc_delta)
        var == n * SumSeq(SqSeq(mfcc_delta)) - SumSeq(mfcc_delta) * SumSeq(mfcc_delta)
    IN  IF n > 0
        THEN IF var < 1 * n * n THEN AddAI(acc, W007, <<"perfect_tempo">>)
             ELSE IF var > 9 * n * n THEN AddHuman(acc, W007, <<"breathing_patterns">>)
             ELSE acc
        ELSE acc

\* rule 8 with the two comparisons exchanged
RuleMelInverted(acc, features) ==
    LET mel_std == Get(features, "mel_spec_std", 0)
    IN  IF mel_std > 15 THEN AddAI(acc, W008, <<"missing_micro_variations">>)
        ELSE IF mel_std < 8 THEN AddHuman(acc, W008, <<"human_imperfections">>)
        ELSE acc

\* 8. mel spectrogram
RuleMel(acc, features) ==
    LET mel_std == Get(features, "mel_spec_std", 0)
    IN  IF mel_std < 8 THEN AddAI(acc, W008, <<"missing_micro_variations">>)
        ELSE IF mel_std > 15 THEN AddHuman(acc, W008, <<"human_imperfections">>)
        ELSE acc

\* 9. spectral bandwidth (the human side appends no tag)
RuleBandwidth(acc, features) ==
    LET bandwidth_std  == Get(features, "spectral_bandwidth_std", 0)
        bandwidth_mean == Get(features, "spectral_bandwidth_mean", 1)
    IN  Threshold(acc, Ratio(bandwidth_std, bandwidth_mean), 15, 30, W009,
                  <<"metallic_overtones">>, <<>>)

\* 10. spectral rolloff (no tag on either side)
RuleRolloff(acc, features) ==
    LET rolloff_std  == Get(features, "spectral_rolloff_std", 0)
        rolloff_mean == Get(features, "spectral_rolloff_mean", 1)
    IN  Threshold(acc, Ratio(rolloff_std, rolloff_mean), 10, 20, W008, <<>>, <<>>)

\* rule k of the ten, in the order the code evaluates them
Rule(k, acc, features) ==
    CASE k = 1 -> RulePitch(acc, features)    [] k = 2 -> RuleCentroid(acc, features)
      [] k = 3 -> RuleZcr(acc, features)      [] k = 4 -> RuleRms(acc, features)
      [] k = 5 -> RuleMfcc(acc, features)     [] k = 6 -> RuleContrast(acc, features)
      [] k = 7 -> RuleTempo(acc, features)    [] k = 8 -> RuleMel(acc, features)
      [] k = 9 -> RuleBandwidth(acc, features) [] OTHER -> RuleRolloff(acc, features)

RECURSIVE AccTrace(_, _)
\* the accumulators before rule 1 and after each of the rules 1..k
AccTrace(k, features) ==
    IF k = 0 THEN <<EmptyAcc>>
    ELSE LET t == AccTrace(k - 1, features)
         IN  Append(t, Rule(k, t[k], features))

\* --------------------------------------------------- heuristic classification

\* a probability: the double the code holds (f) and its decimal reading (r)
Prob(f, r) == [f |-> f, r |-> r]

\* the default prior: the literals 0.45 and 0.55
PriorAI == Prob([e |-> 0 - 2, hi |-> 30198988, lo |-> 214748365], Rat(45, 100))
PriorHuman == Prob([e |-> 0 - 1, hi |-> 18454937, lo |-> 161061274], Rat(55, 100))

\* the clamp bounds 0.51 and 0.99 and the jitter bound 0.02, in hundredths
ClampLow == 51
ClampHigh == 99
NoiseMax == 2

\* np.random.uniform(-0.02, 0.02), on a grid of 0.02 / NoiseRes
NoiseValues == {Rat(k * NoiseMax, 100 * NoiseRes) : k \in (0 - NoiseRes)..NoiseRes}

\* min(0.99, max(0.51, probability + noise))
Clamp(probability, noise) ==
    RatMin(Rat(ClampHigh, 100), RatMax(Rat(ClampLow, 100), RatAdd(probability, noise)))

\* the indicators of `detected` that are keys of `table`, in order
Detected(detected, table) == SelectSeq(detected, LAMBDA ind : ind \in DOMAIN table)

\* an AI branch that joins the phrases of every detected AI indicator
HeuristicAIExplanationAll(detected_indicators) ==
    LET ai_detected == Detected(detected_indicators, AI_INDICATORS)
        RECURSIVE Join(_)
        Join(i) == IF i > Len(ai_detected) THEN <<>>
                   ELSE <<"and">> \o Lower(AI_INDICATORS[ai_detected[i]]) \o Join(i + 1)
    IN  IF ai_detected # <<>>
        THEN AI_INDICATORS[ai_detected[1]] \o Join(2)
        ELSE <<"Synthetic", "voice", "patterns", "detected", "in", "audio", "analysis">>

\* the explanation of the AI branch of _heuristic_detection
HeuristicAIExplanation(detected_indicators) ==
    LET ai_detected == Detected(detected_indicators, AI_INDICATORS)
    IN  IF ai_detected # <<>>
        THEN AI_INDICATORS[ai_detected[1]]
             \o (IF Len(ai_detected) > 1
                 THEN <<"and">> \o Lower(AI_INDICATORS[ai_detected[2]]) ELSE <<>>)
        ELSE <<"Synthetic", "voice", "patterns", "detected", "in", "audio", "analysis">>

\* a HUMAN branch without the fallback phrase
HeuristicHumanExplanationNoFallback(detected_indicators) ==
    LET human_detected == Detected(detected_indicators, HUMAN_INDICATORS)
    IN  IF human_detected # <<>>
        THEN HUMAN_INDICATORS[human_detected[1]]
             \o (IF Len(human_detected) > 1
                 THEN <<"along", "with">> \o Lower(HUMAN_INDICATORS[human_detected[2]]) ELSE <<>>)
        ELSE <<>>

\* the explanation of the HUMAN branch of _heuristic_detection
HeuristicHumanExplanation(detected_indicators) ==
    LET human_detected == Detected(detected_indicators, HUMAN_INDICATORS)
    IN  IF human_detected # <<>>
        THEN HUMAN_INDICATORS[human_detected[1]]
             \o (IF Len(human_detected) > 1
                 THEN <<"along", "with">> \o Lower(HUMAN_INDICATORS[human_detected[2]]) ELSE <<>>)
        ELSE <<"Natural", "human", "voice", "characteristics", "detected">>

\* the probabilities with an even default prior
ProbabilitiesEvenPrior(acc) ==
    LET total_score == ScoreAdd(acc.ai_score, acc.human_score)
        half        == Prob([e |-> 0 - 1, hi |-> 16777216, lo |-> 0], Rat(50, 100))
    IN  IF total_score.f # L2Zero
        THEN [ai_probability |->
                  Prob(FloatDiv(acc.ai_score.f, total_score.f),
                       Rat(acc.ai_score.cents, total_score.cents)),
              human_probability |->
                  Prob(FloatDiv(acc.human_score.f, total_score.f),
                       Rat(acc.human_score.cents, total_score.cents))]
        ELSE [ai_probability |-> half, human_probability |-> half]

\* total_score, ai_probability and human_probability from the final accumulators
Probabilities(acc) ==
    LET total_score == ScoreAdd(acc.ai_score, acc.human_score)
    IN  IF total_score.f # L2Zero
        THEN [ai_probability |->
                  Prob(FloatDiv(acc.ai_score.f, total_score.f),
                       Rat(acc.ai_score.cents, total_score.cents)),
              human_probability |->
                  Prob(FloatDiv(acc.human_score.f, total_score.f),
                       Rat(acc.human_score.cents, total_score.cents))]
        ELSE [ai_probability |-> PriorAI, human_probability |-> PriorHuman]

\* ai_probability >= human_probability
AIWinsOrTies(p) == ~FloatGT(p.human_probability.f, p.ai_probability.f)

\* ai_probability > human_probability
AIWins(p) == FloatGT(p.ai_probability.f, p.human_probability.f)

\* _heuristic_detection up to the jitter: the locals that do not depend on it
HeuristicScoring(features) ==
    LET trace == AccTrace(10, features)
        acc   == trace[11]
        p     == Probabilities(acc)
    IN  [trace |-> trace,
         ai_score |-> acc.ai_score, human_score |-> acc.human_score,
         detected_indicators |-> acc.detected_indicators,
         ai_probability |-> p.ai_probability, human_probability |-> p.human_probability,
         classification |-> IF AIWins(p) THEN AI_GENERATED ELSE HUMAN,
         explanation |-> IF AIWins(p) THEN HeuristicAIExplanation(acc.detected_indicators)
                         ELSE HeuristicHumanExplanation(acc.detected_indicators)]

\* the confidence before rounding: the winner's probability plus the jitter, clamped
HeuristicConfidence(h, noise) ==
    IF h.classification = AI_GENERATED THEN Clamp(h.ai_probability.r, noise)
    ELSE Clamp(h.human_probability.r, noise)

\* ------------------------------------------------ trained-model classification

\* the phrases _generate_ai_explanation appends, in order
AIReasons(features) ==
    LET pitch_std  == Get(features, "pitch_std", 0)
        pitch_mean == Get(features, "pitch_mean", 1)
        rms_std    == Get(features, "rms_std", 0)
        rms_mean   == Get(features, "rms_mean", 1)
        zcr_std    == Get(features, "zcr_std", 0)
        zcr_mean   == Get(features, "zcr_mean", 1)
    IN  (IF pitch_mean > 0 /\ Below(Rat(pitch_std, pitch_mean), 10)
         THEN << <<"unnatural", "pitch", "consistency">> >> ELSE <<>>)
     \o (IF rms_mean > 0 /\ Below(Rat(rms_std, rms_mean), 25)
         THEN << <<"compressed", "dynamic", "range">> >> ELSE <<>>)
     \o (IF zcr_mean > 0 /\ Below(Rat(zcr_std, zcr_mean), 35)
         THEN << <<"robotic", "speech", "patterns">> >> ELSE <<>>)

\* _generate_ai_explanation
GenerateAIExplanation(features) ==
    LET explanations == IF AIReasons(features) = <<>>
                        THEN << <<"synthetic", "voice", "patterns", "detected">> >>
                        ELSE AIReasons(features)
    IN  Capitalize(explanations[1])
        \o (IF Len(explanations) > 1 THEN <<"and">> \o explanations[2] ELSE <<>>)
        \o <<"detected">>

\* the phrases _generate_human_explanation appends, in order
HumanReasons(features) ==
    LET pitch_std  == Get(features, "pitch_std", 0)
        pitch_mean == Get(features, "pitch_mean", 1)
        rms_std    == Get(features, "rms_std", 0)
        rms_mean   == Get(features, "rms_mean", 1)
        mel_std    == Get(features, "mel_spec_std", 0)
    IN  (IF pitch_mean > 0 /\ Above(Rat(pitch_std, pitch_mean), 12)
         THEN << <<"natural", "pitch", "variations">> >> ELSE <<>>)
     \o (IF rms_mean > 0 /\ Above(Rat(rms_std, rms_mean), 30)
         THEN << <<"natural", "dynamic", "expression">> >> ELSE <<>>)
     \o (IF mel_std > 12
         THEN << <<"authentic", "voice", "characteristics">> >> ELSE <<>>)

\* _generate_human_explanation
GenerateHumanExplanation(features) ==
    LET explanations == IF HumanReasons(features) = <<>>
                        THEN << <<"natural", "human", "voice", "patterns", "identified">> >>
                        ELSE HumanReasons(features)
    IN  Capitalize(explanations[1])
        \o (IF Len(explanations) > 1 THEN <<"with">> \o explanations[2] ELSE <<>>)

\* what model.predict and model.predict_proba can return: a class, and one
\* probability per class (entry 1 for class 0, entry 2 for class 1).  The model is
\* whatever joblib.load returned; the code calls the two methods independently.
Predictions == {0, 1}
ProbVectors == {<<Rat(ProbSteps - k, ProbSteps), Rat(k, ProbSteps)>> : k \in 0..ProbSteps}

\* max(probabilities)
MaxProb(probabilities) ==
    IF RatLT(probabilities[1], probabilities[2]) THEN probabilities[2] ELSE probabilities[1]

\* _ml_detection before rounding
MLDetection(features, prediction, probabilities) ==
    [confidence |-> MaxProb(probabilities),
     classification |-> IF prediction = 1 THEN AI_GENERATED ELSE HUMAN,
     explanation |-> IF prediction = 1 THEN GenerateAIExplanation(features)
                     ELSE GenerateHumanExplanation(features)]

\* the double holds the rational x exactly
ExactDouble(x) == IsPow2(x.d \div GCD(x.n, x.d))

\* ------------------------------------------------------------------ the state

VARIABLES
    artifact,   \* the file at settings.MODEL_PATH: "absent", "corrupt" or "valid"
    pc,         \* "start" before VoiceDetector(), "idle" between calls of detect,
                \* "returned" when a call of detect has just ended, "crashed"
    model,      \* self.model: "None" or "loaded"
    call,       \* the locals and the outcome of the call of detect that just ended
    request,    \* the request the voice-detection endpoint is handling, if any
    flat,       \* the last call of _flatten_features: its argument and its result
    settings,   \* app.config.settings, as loaded from the environment at import
    audio_processor,  \* the attributes of the global AudioProcessor instance
    loading,    \* concurrent calls of load_audio_from_bytes and the temporary directory
    runs        \* the calls of one scoring function made on the same input, for comparison

vars == <<artifact, pc, model, call, request, flat, settings, audio_processor, loading, runs>>

\* AudioProcessor.__init__: librosa is not imported yet
NewAudioProcessor == [_librosa |-> "None"]

\* _get_librosa: the first call imports librosa and keeps the module
GetLibrosa(processor) ==
    IF processor._librosa = "None" THEN [processor EXCEPT !._librosa = "librosa"]
    ELSE processor

\* LanguageEnum, and the default of Settings.SUPPORTED_LANGUAGES
LanguageEnum == {"Tamil", "English", "Hindi", "Malayalam", "Telugu"}
DefaultSettings == [SUPPORTED_LANGUAGES |-> LanguageEnum]

Artifacts == {"absent", "corrupt", "valid"}

\* no call of detect has ended and not been consumed yet
NoCall ==
    [outcome |-> "none", strategy |-> "none", features |-> <<>>, trace |-> <<>>,
     ai_score |-> Weight(0, 0, 0), human_score |-> Weight(0, 0, 0),
     detected_indicators |-> <<>>,
     ai_probability |-> Prob(FZero, Rat(0, 1)), human_probability |-> Prob(FZero, Rat(0, 1)),
     noise |-> Rat(0, 1), prediction |-> 0 - 1, probabilities |-> <<>>,
     confidence |-> Rat(0, 1),
     classification |-> "", confidenceScore |-> 0, explanation |-> <<>>]

\* _initialize_model: the value self.model ends with, and whether it raised
InitializeModel(file) ==
    IF file # "absent"
    THEN IF file = "valid"
         THEN [model |-> "loaded", raised |-> FALSE]
         ELSE [model |-> "None", raised |-> FALSE]     \* except Exception: self.model = None
    ELSE [model |-> "None", raised |-> FALSE]

Init ==
    /\ artifact \in Artifacts
    /\ pc = "start"
    /\ model = "None"
    /\ call = NoCall
    /\ request = <<>>
    /\ flat = <<>>
    /\ settings = DefaultSettings
    /\ audio_processor = NewAudioProcessor
    /\ loading = <<>>
    /\ runs = <<>>

\* voice_detector = VoiceDetector(): __init__ and _initialize_model
Construct ==
    /\ pc = "start"
    /\ LET r == InitializeModel(artifact)
       IN  /\ model' = r.model
           /\ pc' = IF r.raised THEN "crashed" ELSE "idle"
    /\ UNCHANGED <<artifact, call, request, flat, settings, audio_processor, loading, runs>>

\* a detect that drops the model when the call raises
ModelDroppedOnError(m, outcome) == IF outcome = "raised" THEN "None" ELSE m

\* self.model after a call of detect (detect does not assign it)
ModelAfterDetect(m, outcome) == m

\* detect: audio_processor.process_audio raises ValueError, in decode_base64_audio
\* (before librosa is needed) or later
DetectProcessAudioFails ==
    /\ pc = "idle"
    /\ call' = [NoCall EXCEPT !.outcome = "raised"]
    /\ model' = ModelAfterDetect(model, "raised")
    /\ pc' = "returned"
    /\ audio_processor' \in {audio_processor, GetLibrosa(audio_processor)}
    /\ UNCHANGED <<artifact, request, flat, settings, loading, runs>>

\* the strategy detect takes: `if self.model is not None`
Strategy(m) == IF m # "None" THEN "ml" ELSE "heuristic"

\* detect with self.model None: process_audio returns `features`, then
\* _heuristic_detection
DetectHeuristic ==
    /\ pc = "idle"
    /\ Strategy(model) = "heuristic"
    /\ \E features \in FeatureInputs :
         \E h \in {HeuristicScoring(features)}, noise \in NoiseValues :
           \E score \in Round2(HeuristicConfidence(h, noise), FALSE) :
             call' = [NoCall EXCEPT
                        !.outcome = "ok", !.strategy = "heuristic",
                        !.features = features, !.trace = h.trace,
                        !.ai_score = h.ai_score, !.human_score = h.human_score,
                        !.detected_indicators = h.detected_indicators,
                        !.ai_probability = h.ai_probability,
                        !.human_probability = h.human_probability,
                        !.noise = noise,
                        !.confidence = HeuristicConfidence(h, noise),
                        !.classification = h.classification,
                        !.confidenceScore = score,
                        !.explanation = h.explanation]
    /\ model' = ModelAfterDetect(model, "ok")
    /\ pc' = "returned"
    /\ audio_processor' = GetLibrosa(audio_processor)
    /\ UNCHANGED <<artifact, request, flat, settings, loading, runs>>

\* detect with a loaded model: process_audio returns `features`, then _ml_detection
DetectML ==
    /\ pc = "idle"
    /\ Strategy(model) = "ml"
    /\ \E features \in FeatureInputs, prediction \in Predictions,
          probabilities \in ProbVectors :
         \E m \in {MLDetection(features, prediction, probabilities)} :
           \E score \in Round2(m.confidence, ExactDouble(m.confidence)) :
             call' = [NoCall EXCEPT
                        !.outcome = "ok", !.strategy = "ml",
                        !.features = features,
                        !.prediction = prediction, !.probabilities = probabilities,
                        !.confidence = m.confidence,
                        !.classification = m.classification,
                        !.confidenceScore = score,
                        !.explanation = m.explanation]
    /\ model' = ModelAfterDetect(model, "ok")
    /\ pc' = "returned"
    /\ audio_processor' = GetLibrosa(audio_processor)
    /\ UNCHANGED <<artifact, request, flat, settings, loading, runs>>

\* detect with a loaded model: model.predict or model.predict_proba raises
DetectMLFails ==
    /\ pc = "idle"
    /\ Strategy(model) = "ml"
    /\ call' = [NoCall EXCEPT !.outcome = "raised", !.strategy = "ml"]
    /\ model' = ModelAfterDetect(model, "raised")
    /\ pc' = "returned"
    /\ audio_processor' = GetLibrosa(audio_processor)
    /\ UNCHANGED <<artifact, request, flat, settings, loading, runs>>

\* the caller has taken the result (or the exception); the locals are gone
Return ==
    /\ pc = "returned"
    /\ pc' = "idle"
    /\ call' = NoCall
    /\ UNCHANGED <<artifact, model, request, flat, settings, audio_processor, loading, runs>>

Next ==
    \/ Construct
    \/ DetectProcessAudioFails
    \/ DetectHeuristic
    \/ DetectML
    \/ DetectMLFails
    \/ Return

Spec == Init /\ [][Next]_vars

\* ----------------------------------------------------------- feature flattening

\* scalar_keys and array_keys of _flatten_features
ScalarKeys ==
    <<"spectral_centroid_mean", "spectral_centroid_std",
      "spectral_bandwidth_mean", "spectral_bandwidth_std",
      "spectral_rolloff_mean", "spectral_rolloff_std",
      "zcr_mean", "zcr_std",
      "rms_mean", "rms_std",
      "pitch_mean", "pitch_std", "pitch_range",
      "tempo",
      "mel_spec_mean", "mel_spec_std",
      "duration">>
ArrayKeys == <<"mfcc_mean", "mfcc_std", "mfcc_delta_mean", "spectral_contrast_mean", "chroma_mean">>

RECURSIVE ExtendArrays(_, _)
\* the second loop of _flatten_features from array key i on: the list under a key
\* that is present is appended, a key that is absent appends nothing
ExtendArrays(features, i) ==
    IF i > Len(ArrayKeys) THEN <<>>
    ELSE (IF ArrayKeys[i] \in DOMAIN features THEN features[ArrayKeys[i]] ELSE <<>>)
         \o ExtendArrays(features, i + 1)

\* _flatten_features (the values of the model are small integers, which float32
\* holds exactly)
FlattenFeatures(features) ==
    [i \in 1..Len(ScalarKeys) |->
        IF ScalarKeys[i] \in DOMAIN features THEN features[ScalarKeys[i]] ELSE 0]
    \o ExtendArrays(features, 1)

\* the keys extract_features sets that no scoring rule reads
OtherFeatures ==
    ("tempo" :> 120) @@ ("mel_spec_mean" :> 0 - 30)
    @@ ("chroma_mean" :> Vec(ChromaLen, 1, 2)) @@ ("chroma_std" :> 3) @@ ("duration" :> 5)

\* the signal p has positive pitch values: len(pitch_values) > 0
Voiced(p) == p[1] # 0

\* an extraction that sets pitch_range only when a pitch was found
PitchRangeIfVoiced(voiced) == IF voiced THEN ("pitch_range" :> 40) ELSE <<>>

\* pitch_range: max - min of the positive pitch values, 0.0 when there is none
PitchRange(voiced) == IF voiced THEN ("pitch_range" :> 40) ELSE ("pitch_range" :> 0)

\* the dictionary extract_features returns, with every key
CompleteFeatures(p) == FeatureVector(p) @@ PitchRange(Voiced(p)) @@ OtherFeatures

\* the dictionary d without the keys of K
Without(d, K) == [k \in (DOMAIN d) \ K |-> d[k]]

RECURSIVE AtMost(_, _)
\* the subsets of S with at most n elements
AtMost(S, n) == IF n = 0 THEN {{}} ELSE {K \cup {k} : K \in AtMost(S, n - 1), k \in S} \cup {{}}

\* the arguments of _flatten_features: a complete dictionary of a uniform profile
\* without at most MaxAbsent of its keys
FlattenInputs ==
    UNION { { Without(CompleteFeatures(p), K) :
              K \in AtMost(DOMAIN CompleteFeatures(p), MaxAbsent) } :
            p \in UNION {Deviations(b, {}) : b \in 1..3} }

FlattenInit ==
    /\ artifact = "absent"
    /\ pc = "start"
    /\ model = "None"
    /\ call = NoCall
    /\ request = <<>>
    /\ flat = <<>>
    /\ settings = DefaultSettings
    /\ audio_processor = NewAudioProcessor
    /\ loading = <<>>
    /\ runs = <<>>

\* one call of _flatten_features (the function reads nothing but its argument:
\* one call per behaviour covers every call)
FlattenCall ==
    /\ flat = <<>>
    /\ \E features \in FlattenInputs :
         flat' = [features |-> features, flat_features |-> FlattenFeatures(features)]
    /\ UNCHANGED <<artifact, pc, model, call, request, settings, audio_processor, loading, runs>>

FlattenNext == FlattenCall

FlattenSpec == FlattenInit /\ [][FlattenNext]_vars

\* ------------------------------------------------ the voice-detection endpoint

\* A base64 text is described by what b64decode reads of it: the number of
\* characters of the base64 alphabet (data), of trailing "=" (pad) and of other
\* characters (foreign).  `parses` and `samples` describe the bytes it stands for:
\* whether librosa.load can parse them, and the length of the signal it returns.
Text(data, pad, foreign, parses, samples) ==
    [data |-> data, pad |-> pad, foreign |-> foreign, parses |-> parses, samples |-> samples]

\* the audioBase64 texts of the requests: "not-base64!!", a long text with a
\* dangling character, 99 encoded bytes, 102 encoded bytes (unparsable, an empty
\* signal, a short signal, five seconds), and 102 encoded bytes with two
\* characters outside the alphabet
AudioTexts ==
    { Text(9, 0, 3, FALSE, 0), Text(137, 0, 0, FALSE, 0), Text(132, 0, 0, FALSE, 0),
      Text(136, 0, 0, FALSE, 0), Text(136, 0, 0, TRUE, 0), Text(136, 0, 0, TRUE, 100),
      Text(136, 0, 0, TRUE, 110250),
      Text(136, 0, 2, FALSE, 0), Text(136, 0, 2, TRUE, 110250) }

\* len(text)
TextLen(text) == text.data + text.pad + text.foreign

\* base64.b64decode(text) with validate=False: characters outside the alphabet
\* are discarded, then the padding is checked.  The result is the number of
\* bytes decoded, or "raised".
B64Decode(text) ==
    LET rest == text.data % 4
        ok   == CASE rest = 0 -> TRUE
                  [] rest = 1 -> FALSE
                  [] rest = 2 -> text.pad >= 2
                  [] OTHER    -> text.pad >= 1
    IN  IF ok THEN [raised |-> FALSE, length |-> (text.data * 6) \div 8]
        ELSE [raised |-> TRUE, length |-> 0]

\* Field(min_length=100) of audioBase64, and the length validate_base64 requires
MinLength == 100
MinDecoded == 100

\* VoiceDetectionRequest(...): the errors pydantic collects over all the fields,
\* and whether validate_base64 ran (it runs when the core validation of its own
\* field passed, whatever the other fields are)
ValidateRequest(body) ==
    LET language_errors ==
            IF body.language \in LanguageEnum THEN <<>> ELSE << <<"language", "enum">> >>
        validator_ran == TextLen(body.audioBase64) >= MinLength
        decoded == B64Decode(body.audioBase64)
        audio_errors ==
            IF ~validator_ran THEN << <<"audioBase64", "string_too_short">> >>
            ELSE IF decoded.raised
                 THEN << <<"audioBase64", "Invalid base64 encoding">> >>
            ELSE IF decoded.length < MinDecoded
                 THEN << <<"audioBase64", "Invalid base64 encoding", "Audio data too short">> >>
            ELSE <<>>
    IN  [errors |-> language_errors \o audio_errors, validator_ran |-> validator_ran]

\* the detail dictionary of the HTTPExceptions the code raises
ErrorDetail(message) == [status |-> "error", message |-> message]

\* the response FastAPI sends for HTTPException(status_code, detail): the
\* detail goes under the key "detail"
HttpExceptionResponse(status_code, detail) ==
    [status_code |-> status_code, body |-> [detail |-> detail]]

\* the response FastAPI sends for a RequestValidationError
ValidationErrorResponse(errors) ==
    [status_code |-> 422, body |-> [detail |-> errors]]

\* the keys of the requests: no header, a key that is not settings.API_KEY, the key
ApiKeys == {"missing", "wrong", "valid"}

\* a verify_api_key that lets every request through
VerifyApiKeyOpen(api_key) == [raised |-> FALSE, status_code |-> 0, detail |-> <<>>]

\* verify_api_key: the HTTPException it raises, if any
VerifyApiKey(api_key) ==
    IF api_key = "missing"
    THEN [raised |-> TRUE, status_code |-> 401,
          detail |-> ErrorDetail(<<"API key is missing. Please provide a valid API key in the x-api-key header.">>)]
    ELSE IF api_key # "valid"
    THEN [raised |-> TRUE, status_code |-> 403,
          detail |-> ErrorDetail(<<"Invalid API key or malformed request">>)]
    ELSE [raised |-> FALSE, status_code |-> 0, detail |-> <<>>]

\* the requests: header, body text (JSON or not) and the fields of the body
Requests ==
    [api_key : ApiKeys, json : {"object"},
     language : {"Tamil", "English", "French"}, audioBase64 : AudioTexts]
    \cup [api_key : ApiKeys, json : {"malformed"},
          language : {"Tamil"}, audioBase64 : {Text(9, 0, 3, FALSE, 0)}]

\* the handling of one request: the request, the place the handling is at, what
\* has been done for it so far, the temporary file, the exception in flight, the
\* locals of detect and the response
Handling(req) ==
    [req |-> req, at |-> "body", done |-> {}, tmp_file |-> "none", exc |-> <<>>,
     samples |-> 0, signal |-> <<>>, features |-> <<>>, result |-> <<>>, response |-> <<>>]

ServiceInit ==
    /\ artifact \in Artifacts
    /\ pc = "start"
    /\ model = "None"
    /\ call = NoCall
    /\ request = <<>>
    /\ flat = <<>>
    /\ settings \in {DefaultSettings, [SUPPORTED_LANGUAGES |-> {"Tamil"}]}
    /\ audio_processor = NewAudioProcessor
    /\ loading = <<>>
    /\ runs = <<>>

\* a request arrives at POST /api/voice-detection
ReceiveRequest ==
    /\ pc = "idle"
    /\ request = <<>>
    /\ \E req \in Requests : request' = Handling(req)
    /\ UNCHANGED <<artifact, pc, model, call, flat, settings, audio_processor, loading, runs>>

\* FastAPI reads the body as JSON before it resolves the dependencies
ParseBody ==
    /\ request # <<>> /\ request.at = "body"
    /\ request' =
         IF request.req.json = "malformed"
         THEN [request EXCEPT !.at = "respond",
                              !.response = ValidationErrorResponse(<< <<"body", "json_invalid">> >>)]
         ELSE [request EXCEPT !.at = "auth"]
    /\ UNCHANGED <<artifact, pc, model, call, flat, settings, audio_processor, loading, runs>>

\* Depends(verify_api_key)
Authenticate ==
    /\ request # <<>> /\ request.at = "auth"
    /\ LET r == VerifyApiKey(request.req.api_key)
       IN  request' =
             IF r.raised
             THEN [request EXCEPT !.at = "respond",
                                  !.response = HttpExceptionResponse(r.status_code, r.detail)]
             ELSE [request EXCEPT !.at = "validate"]
    /\ UNCHANGED <<artifact, pc, model, call, flat, settings, audio_processor, loading, runs>>

\* request: VoiceDetectionRequest
Validate ==
    /\ request # <<>> /\ request.at = "validate"
    /\ LET v == ValidateRequest(request.req)
           done == IF v.validator_ran THEN request.done \cup {"validator_decode"}
                   ELSE request.done
       IN  request' =
             IF v.errors # <<>>
             THEN [request EXCEPT !.at = "respond", !.done = done,
                                  !.response = ValidationErrorResponse(v.errors)]
             ELSE [request EXCEPT !.at = "route", !.done = done]
    /\ UNCHANGED <<artifact, pc, model, call, flat, settings, audio_processor, loading, runs>>

\* an exception in flight inside detect_voice
ValueError(message) == [type |-> "ValueError", message |-> message]
OSError(message) == [type |-> "OSError", message |-> message]
RuntimeError(message) == [type |-> "RuntimeError", message |-> message]

\* an endpoint without the language check
SupportedAlways(language, config) == TRUE

\* language in settings.SUPPORTED_LANGUAGES
Supported(language, config) == language \in config.SUPPORTED_LANGUAGES

\* detect_voice: the language check
CheckLanguage ==
    /\ request # <<>> /\ request.at = "route"
    /\ request' =
         IF ~Supported(request.req.language, settings)
         THEN [request EXCEPT
                 !.at = "except",
                 !.exc = [type |-> "HTTPException", status_code |-> 400,
                          detail |-> ErrorDetail(<<"Unsupported language", request.req.language>>)]]
         ELSE [request EXCEPT !.at = "decode"]
    /\ UNCHANGED <<artifact, pc, model, call, flat, settings, audio_processor, loading, runs>>

\* the stage that follows `stage` in process_audio and detect
NextStage(stage) ==
    CASE stage = "decode" -> "tempfile"
      [] stage = "load" -> "extract"
      [] stage = "extract" -> "score"
      [] OTHER -> "build"

\* a process_audio that goes on to the next stage when a stage has raised
AfterStageSwallowing(stage, raised) ==
    IF raised /\ stage = "score" THEN "except" ELSE NextStage(stage)

\* where the handling is after a stage: an exception a stage raises is caught
\* neither by process_audio nor by detect, it leaves both
AfterStage(stage, raised) == IF raised THEN "except" ELSE NextStage(stage)

\* process_audio: decode_base64_audio
DecodeBase64Audio ==
    /\ request # <<>> /\ request.at = "decode"
    /\ LET decoded == B64Decode(request.req.audioBase64)
       IN  request' =
             IF decoded.raised
             THEN [request EXCEPT !.at = AfterStage("decode", TRUE), !.done = @ \cup {"decode"},
                     !.exc = ValueError(<<"Failed to decode base64 audio", "binascii.Error">>)]
             ELSE [request EXCEPT !.at = AfterStage("decode", FALSE),
                                  !.done = @ \cup {"decode"}]
    /\ UNCHANGED <<artifact, pc, model, call, flat, settings, audio_processor, loading, runs>>

\* load_audio_from_bytes: self._get_librosa(), then
\* tempfile.NamedTemporaryFile(suffix='.mp3', delete=False)
CreateTempFile ==
    /\ request # <<>> /\ request.at = "tempfile"
    /\ audio_processor' = GetLibrosa(audio_processor)
    /\ request' = [request EXCEPT !.at = "write", !.done = @ \cup {"tempfile"},
                                  !.tmp_file = "exists"]
    /\ UNCHANGED <<artifact, pc, model, call, flat, settings, loading, runs>>

\* load_audio_from_bytes: tmp_file.write(audio_bytes) and the end of the with block
WriteTempFile ==
    /\ request # <<>> /\ request.at = "write"
    /\ request' = [request EXCEPT !.at = "load"]
    /\ UNCHANGED <<artifact, pc, model, call, flat, settings, audio_processor, loading, runs>>

\* load_audio_from_bytes: tmp_file.write(audio_bytes) raises (the disk is full);
\* the with block closes the file, which was created with delete=False, and the
\* exception leaves load_audio_from_bytes before its try statement
WriteTempFileFails ==
    /\ request # <<>> /\ request.at = "write"
    /\ request' = [request EXCEPT !.at = "except",
                                  !.exc = OSError(<<"No space left on device">>)]
    /\ UNCHANGED <<artifact, pc, model, call, flat, settings, audio_processor, loading, runs>>

\* load_audio_from_bytes: the try statement, librosa.load, and its finally
\* clause, which removes the file
LoadAudio ==
    /\ request # <<>> /\ request.at = "load"
    /\ request' =
         IF request.req.audioBase64.parses
         THEN [request EXCEPT !.at = AfterStage("load", FALSE), !.done = @ \cup {"load"},
                              !.samples = request.req.audioBase64.samples,
                              !.tmp_file = "none"]
         ELSE [request EXCEPT !.at = AfterStage("load", TRUE), !.done = @ \cup {"load"},
                              !.tmp_file = "none",
                              !.exc = ValueError(<<"Failed to load audio", "NoBackendError">>)]
    /\ UNCHANGED <<artifact, pc, model, call, flat, settings, audio_processor, loading, runs>>

\* the signals of the endpoint's requests, as the values extract_features measures
ServiceSignals ==
    Deviations(1, {}) \cup Deviations(3, {})
    \cup {q \in Deviations(2, {1, 10}) : q[1] = 1 /\ q[10] \in {2, 3}}
    \cup {q \in Deviations(2, {1}) : ~Voiced(q)}

\* process_audio: extract_features returns the features of the signal
ExtractFeatures ==
    /\ request # <<>> /\ request.at = "extract"
    /\ \E p \in ServiceSignals :
         request' = [request EXCEPT !.at = AfterStage("extract", FALSE),
                                    !.done = @ \cup {"extract"},
                                    !.signal = p,
                                    !.features = CompleteFeatures(p)]
    /\ UNCHANGED <<artifact, pc, model, call, flat, settings, audio_processor, loading, runs>>

\* process_audio: a librosa call of extract_features raises
ExtractFeaturesFails ==
    /\ request # <<>> /\ request.at = "extract"
    /\ request' = [request EXCEPT !.at = AfterStage("extract", TRUE),
                                  !.done = @ \cup {"extract"},
                     !.exc = ValueError(<<"Feature extraction failed", "ParameterError">>)]
    /\ UNCHANGED <<artifact, pc, model, call, flat, settings, audio_processor, loading, runs>>

\* a detect that returns the confidence as computed, without round(confidence, 2)
ConfidenceUnrounded(confidence, score) == confidence

\* round(confidence, 2): the double nearest to score hundredths
RoundedConfidence(confidence, score) == Rat(score, 100)

\* a detect whose label depends on the language
DetectResultByLanguage(classification, confidence, explanation, language) ==
    [classification |-> IF language = "Tamil" THEN HUMAN ELSE AI_GENERATED,
     confidenceScore |-> confidence,
     explanation |-> explanation, language |-> language]

\* the dictionary detect returns
DetectResult(classification, confidence, explanation, language) ==
    [classification |-> classification, confidenceScore |-> confidence,
     explanation |-> explanation, language |-> language]

\* detect with self.model None: _heuristic_detection
ScoreHeuristic ==
    /\ request # <<>> /\ request.at = "score"
    /\ Strategy(model) = "heuristic"
    /\ \E h \in {HeuristicScoring(request.features)}, noise \in NoiseValues :
         \E score \in Round2(HeuristicConfidence(h, noise), FALSE) :
           request' = [request EXCEPT
                         !.at = AfterStage("score", FALSE), !.done = @ \cup {"score"},
                         !.result = DetectResult(h.classification,
                                       RoundedConfidence(HeuristicConfidence(h, noise), score),
                                       h.explanation, request.req.language)]
    /\ UNCHANGED <<artifact, pc, model, call, flat, settings, audio_processor, loading, runs>>

\* detect with a loaded model: _ml_detection
ScoreML ==
    /\ request # <<>> /\ request.at = "score"
    /\ Strategy(model) = "ml"
    /\ \E prediction \in Predictions, probabilities \in ProbVectors :
         \E m \in {MLDetection(request.features, prediction, probabilities)} :
           \E score \in Round2(m.confidence, ExactDouble(m.confidence)) :
             request' = [request EXCEPT
                           !.at = AfterStage("score", FALSE), !.done = @ \cup {"score"},
                           !.result = DetectResult(m.classification,
                                         RoundedConfidence(m.confidence, score),
                                         m.explanation, request.req.language)]
    /\ UNCHANGED <<artifact, pc, model, call, flat, settings, audio_processor, loading, runs>>

\* detect with a loaded model: model.predict or model.predict_proba raises
ScoreMLFails ==
    /\ request # <<>> /\ request.at = "score"
    /\ Strategy(model) = "ml"
    /\ \E exc \in {RuntimeError(<<"predict failed">>),
                   ValueError(<<"X has 97 features, but the model is expecting 30 features">>)} :
         request' = [request EXCEPT !.at = AfterStage("score", TRUE),
                                    !.done = @ \cup {"score"}, !.exc = exc]
    /\ UNCHANGED <<artifact, pc, model, call, flat, settings, audio_processor, loading, runs>>

\* VoiceDetectionSuccessResponse(...): the fields pydantic rejects
SuccessResponseErrors(result) ==
    (IF result.classification \in {AI_GENERATED, HUMAN} THEN {} ELSE {"classification"})
    \cup (IF RatLT(result.confidenceScore, Rat(0, 1)) \/ RatLT(Rat(1, 1), result.confidenceScore)
          THEN {"confidenceScore"} ELSE {})

\* detect_voice: the success response; a pydantic ValidationError is a ValueError
BuildResponse ==
    /\ request # <<>> /\ request.at = "build"
    /\ request' =
         IF SuccessResponseErrors(request.result) # {}
         THEN [request EXCEPT !.at = "except",
                              !.exc = ValueError(<<"validation error for VoiceDetectionSuccessResponse">>)]
         ELSE [request EXCEPT
                 !.at = "respond",
                 !.response =
                    [status_code |-> 200,
                     body |-> [status |-> "success",
                               language |-> request.req.language,
                               classification |-> request.result.classification,
                               confidenceScore |-> request.result.confidenceScore,
                               explanation |-> request.result.explanation]]]
    /\ UNCHANGED <<artifact, pc, model, call, flat, settings, audio_processor, loading, runs>>

\* except clauses whose last clause answers with the text of the exception
ExceptionResponseLeaksText(exc) ==
    IF exc.type = "HTTPException"
    THEN HttpExceptionResponse(exc.status_code, exc.detail)
    ELSE IF exc.type = "ValueError"
    THEN HttpExceptionResponse(400, ErrorDetail(exc.message))
    ELSE HttpExceptionResponse(500, ErrorDetail(exc.message))

\* an endpoint that answers every exception with status 500
ExceptionResponseAll500(exc) ==
    HttpExceptionResponse(500,
        ErrorDetail(<<"An internal error occurred while processing the audio">>))

\* the except clauses of detect_voice
ExceptionResponse(exc) ==
    IF exc.type = "HTTPException"
    THEN HttpExceptionResponse(exc.status_code, exc.detail)
    ELSE IF exc.type = "ValueError"
    THEN HttpExceptionResponse(400, ErrorDetail(exc.message))
    ELSE HttpExceptionResponse(500,
             ErrorDetail(<<"An internal error occurred while processing the audio">>))

\* detect_voice: an exception reaches the except clauses
HandleException ==
    /\ request # <<>> /\ request.at = "except"
    /\ request' = [request EXCEPT !.at = "respond",
                                  !.response = ExceptionResponse(request.exc)]
    /\ UNCHANGED <<artifact, pc, model, call, flat, settings, audio_processor, loading, runs>>

\* the response is sent; the locals of the handling are gone
SendResponse ==
    /\ request # <<>> /\ request.at = "respond"
    /\ request' = <<>>
    /\ UNCHANGED <<artifact, pc, model, call, flat, settings, audio_processor, loading, runs>>

\* The endpoint is an `async def` without an await: the event loop runs one
\* handling to its end before it starts the next.
ServiceNext ==
    \/ Construct
    \/ ReceiveRequest
    \/ ParseBody
    \/ Authenticate
    \/ Validate
    \/ CheckLanguage
    \/ DecodeBase64Audio
    \/ CreateTempFile
    \/ WriteTempFile
    \/ WriteTempFileFails
    \/ LoadAudio
    \/ ExtractFeatures
    \/ ExtractFeaturesFails
    \/ ScoreHeuristic
    \/ ScoreML
    \/ ScoreMLFails
    \/ BuildResponse
    \/ HandleException
    \/ SendResponse

ServiceSpec == ServiceInit /\ [][ServiceNext]_vars

\* ------------------------------------- concurrent calls of load_audio_from_bytes

\* Two requests are served at the same time (two server processes, or two
\* threads of one) and share the temporary directory.  Each call of
\* load_audio_from_bytes advances by steps that interleave with the other's.
Loaders == {"first", "second"}

\* the file names NamedTemporaryFile can choose from
TempNames == 1..NumNames

\* one call: where it is, its tmp_path, whose bytes librosa.load read and whose
\* file os.remove deleted ("none": not yet, "absent": there was no file)
NoLoad == [at |-> "idle", tmp_path |-> 0, loaded |-> "none", removed |-> "none"]

\* a NamedTemporaryFile that takes any name, in use or not
AnyTempName(files) == TempNames

\* NamedTemporaryFile opens its file with O_CREAT | O_EXCL under a random name and
\* tries another name when the file exists: the name it ends with was not in use
FreshTempName(files) == {n \in TempNames : files[n] = "absent"}

LoadingInit ==
    /\ artifact = "absent"
    /\ pc = "start"
    /\ model = "None"
    /\ call = NoCall
    /\ request = <<>>
    /\ flat = <<>>
    /\ settings = DefaultSettings
    /\ audio_processor = NewAudioProcessor
    /\ loading = [files |-> [n \in TempNames |-> "absent"], calls |-> [w \in Loaders |-> NoLoad]]
    /\ runs = <<>>

\* load_audio_from_bytes(audio_bytes) is called for a request
EnterLoad(w) ==
    /\ loading.calls[w].at = "idle"
    /\ loading' = [loading EXCEPT !.calls[w] = [NoLoad EXCEPT !.at = "create"]]
    /\ UNCHANGED <<artifact, pc, model, call, request, flat, settings, audio_processor, runs>>

\* tempfile.NamedTemporaryFile(suffix='.mp3', delete=False): the file now exists
\* and holds what this call will write
OpenTempFile(w) ==
    /\ loading.calls[w].at = "create"
    /\ \E n \in FreshTempName(loading.files) :
         loading' = [loading EXCEPT !.files[n] = w,
                                    !.calls[w].tmp_path = n, !.calls[w].at = "write"]
    /\ UNCHANGED <<artifact, pc, model, call, request, flat, settings, audio_processor, runs>>

\* tmp_file.write(audio_bytes); tmp_path = tmp_file.name; the with block ends
WriteBytes(w) ==
    /\ loading.calls[w].at = "write"
    /\ loading' = [loading EXCEPT !.calls[w].at = "load"]
    /\ UNCHANGED <<artifact, pc, model, call, request, flat, settings, audio_processor, runs>>

\* tmp_file.write raises: the call is left, the file stays
WriteBytesFails(w) ==
    /\ loading.calls[w].at = "write"
    /\ loading' = [loading EXCEPT !.calls[w] = NoLoad]
    /\ UNCHANGED <<artifact, pc, model, call, request, flat, settings, audio_processor, runs>>

\* librosa.load(tmp_path, ...): reads the file that has this name now
LibrosaLoad(w) ==
    /\ loading.calls[w].at = "load"
    /\ loading' = [loading EXCEPT !.calls[w].loaded = loading.files[loading.calls[w].tmp_path],
                                  !.calls[w].at = "remove"]
    /\ UNCHANGED <<artifact, pc, model, call, request, flat, settings, audio_processor, runs>>

\* finally: if os.path.exists(tmp_path): os.remove(tmp_path)
RemoveTempFile(w) ==
    /\ loading.calls[w].at = "remove"
    /\ LET n == loading.calls[w].tmp_path
       IN  loading' = [loading EXCEPT !.calls[w].removed = loading.files[n],
                                      !.files[n] = "absent",
                                      !.calls[w].at = "left"]
    /\ UNCHANGED <<artifact, pc, model, call, request, flat, settings, audio_processor, runs>>

\* the call has returned or raised; its locals are gone
LeaveLoad(w) ==
    /\ loading.calls[w].at = "left"
    /\ loading' = [loading EXCEPT !.calls[w] = NoLoad]
    /\ UNCHANGED <<artifact, pc, model, call, request, flat, settings, audio_processor, runs>>

LoadingNext ==
    \E w \in Loaders :
        \/ EnterLoad(w)
        \/ OpenTempFile(w)
        \/ WriteBytes(w)
        \/ WriteBytesFails(w)
        \/ LibrosaLoad(w)
        \/ RemoveTempFile(w)
        \/ LeaveLoad(w)

LoadingSpec == LoadingInit /\ [][LoadingNext]_vars

\* ------------------------------------------- detect called twice on one audio

\* the rules among 1..10 that added their weight to ai_score
AIRules(trace) ==
    {k \in 1..10 : trace[k + 1].ai_score.cents > trace[k].ai_score.cents}

\* the end of _heuristic_detection when the jitter is added before the comparison
JitterFirstOutcome(h, noise) ==
    LET ai == RatLT(h.human_probability.r, RatAdd(h.ai_probability.r, noise))
    IN  [classification |-> IF ai THEN AI_GENERATED ELSE HUMAN,
         confidence |-> IF ai THEN Clamp(h.ai_probability.r, noise)
                        ELSE Clamp(h.human_probability.r, noise),
         explanation |-> IF ai THEN HeuristicAIExplanation(h.detected_indicators)
                         ELSE HeuristicHumanExplanation(h.detected_indicators),
         detected_indicators |-> h.detected_indicators,
         ai_score |-> h.ai_score, human_score |-> h.human_score,
         ai_rules |-> AIRules(h.trace), exact |-> FALSE]

\* a _heuristic_detection that adds the jitter before it compares
HeuristicDetectionJitterFirst(features, noise) ==
    CHOOSE r \in {JitterFirstOutcome(h, noise) : h \in {HeuristicScoring(features)}} : TRUE

\* the end of _heuristic_detection, from the locals h, up to the rounding
HeuristicOutcome(h, noise) ==
    [classification |-> h.classification,
     confidence |-> HeuristicConfidence(h, noise),
     explanation |-> h.explanation,
     detected_indicators |-> h.detected_indicators,
     ai_score |-> h.ai_score, human_score |-> h.human_score,
     ai_rules |-> AIRules(h.trace), exact |-> FALSE]

\* _heuristic_detection(features) when np.random.uniform returns `noise`, up to
\* the rounding
HeuristicDetection(features, noise) ==
    CHOOSE r \in {HeuristicOutcome(h, noise) : h \in {HeuristicScoring(features)}} : TRUE

\* _ml_detection(features) when the model answers prediction and probabilities,
\* up to the rounding
TrainedDetection(features, prediction, probabilities) ==
    LET m == MLDetection(features, prediction, probabilities)
    IN  [classification |-> m.classification, confidence |-> m.confidence,
         explanation |-> m.explanation, detected_indicators |-> <<>>,
         ai_score |-> Weight(0, 0, 0), human_score |-> Weight(0, 0, 0),
         ai_rules |-> {}, exact |-> ExactDouble(m.confidence)]

\* what decides the outcome of scoring besides the features: the jitter drawn
\* (heuristic strategy) or the answers of the trained model
Draws ==
    [strategy : {"heuristic"}, noise : NoiseValues, prediction : {0}, probabilities : {<<>>}]
    \cup [strategy : {"ml"}, noise : {Rat(0, 1)},
          prediction : Predictions, probabilities : ProbVectors]

\* the scoring of detect under the draw
Scoring(features, draw) ==
    IF draw.strategy = "heuristic" THEN HeuristicDetection(features, draw.noise)
    ELSE TrainedDetection(features, draw.prediction, draw.probabilities)

\* the keys the rules 2, 3, 4, 8, 9 and 10 read
RatioKeys ==
    {"spectral_centroid_std", "spectral_centroid_mean", "zcr_std", "zcr_mean",
     "rms_std", "rms_mean", "mel_spec_std",
     "spectral_bandwidth_std", "spectral_bandwidth_mean",
     "spectral_rolloff_std", "spectral_rolloff_mean"}

\* the feature dictionaries scored twice: those of the signals that differ from
\* the neutral one in pitch, zero crossings and energy, the same without the
\* keys of RatioKeys, and the empty dictionary
TwiceSignals == UNION {Deviations(2, D) : D \in SUBSET {1, 3, 4}}
TwiceInputs ==
    {CompleteFeatures(p) : p \in TwiceSignals}
    \cup {Without(CompleteFeatures(p), RatioKeys) : p \in TwiceSignals}
    \cup {<<>>}

\* the languages of the requests
TwiceLanguages == LanguageEnum \cup {"French"}

\* one request with a valid key and a loadable audio whose features are
\* `features`: detect_voice up to its result
Run(features, draw, s, score, language) ==
    LET accepted == language \in LanguageEnum /\ Supported(language, settings)
    IN  [features |-> features, draw |-> draw, language |-> language,
         accepted |-> accepted,
         classification |-> s.classification, confidence |-> s.confidence,
         explanation |-> s.explanation,
         detected_indicators |-> s.detected_indicators,
         ai_score |-> s.ai_score, human_score |-> s.human_score,
         ai_rules |-> s.ai_rules, score |-> score,
         result |-> IF accepted
                    THEN DetectResult(s.classification,
                                      RoundedConfidence(s.confidence, score),
                                      s.explanation, language)
                    ELSE <<>>]

TwiceInit ==
    /\ artifact = "absent"
    /\ pc = "start"
    /\ model = "None"
    /\ call = NoCall
    /\ request = <<>>
    /\ flat = <<>>
    /\ settings = DefaultSettings
    /\ audio_processor = NewAudioProcessor
    /\ loading = <<>>
    /\ runs = <<>>

\* a first request
FirstRun ==
    /\ runs = <<>>
    /\ \E features \in TwiceInputs, draw \in Draws, language \in TwiceLanguages :
         \E s \in {Scoring(features, draw)} :
           \E score \in Round2(s.confidence, s.exact) :
             runs' = <<Run(features, draw, s, score, language)>>
    /\ UNCHANGED <<artifact, pc, model, call, request, flat, settings, audio_processor, loading>>

\* a second request with the same audio and language; the jitter is drawn anew
\* (the trained model, a function of the features, answers as before)
SameAudioAgain ==
    /\ Len(runs) = 1
    /\ runs[1].draw.strategy = "heuristic"
    /\ \E noise \in NoiseValues :
         LET draw == [runs[1].draw EXCEPT !.noise = noise]
         IN  \E s \in {Scoring(runs[1].features, draw)} :
               \E score \in Round2(s.confidence, s.exact) :
                 runs' = Append(runs, Run(runs[1].features, draw, s, score, runs[1].language))
    /\ UNCHANGED <<artifact, pc, model, call, request, flat, settings, audio_processor, loading>>

\* a second request with the same audio in another language, when the jitter
\* drawn is the same: the confidence is the same double, and rounds the same way
OtherLanguage ==
    /\ Len(runs) = 1
    /\ \E language \in TwiceLanguages \ {runs[1].language} :
         \E s \in {Scoring(runs[1].features, runs[1].draw)} :
           runs' = Append(runs, Run(runs[1].features, runs[1].draw, s, runs[1].score, language))
    /\ UNCHANGED <<artifact, pc, model, call, request, flat, settings, audio_processor, loading>>

TwiceNext ==
    \/ FirstRun
    \/ SameAudioAgain
    \/ OtherLanguage

TwiceSpec == TwiceInit /\ [][TwiceNext]_vars

\* ------------------------------------------------------------------ properties

RatEq(x, y) == x.n * y.d = y.n * x.d

\* a call of detect has just returned a result
Returned == pc = "returned" /\ call.outcome = "ok"
ReturnedHeuristic == Returned /\ call.strategy = "heuristic"
ReturnedML == Returned /\ call.strategy = "ml"

\* C1 (as stated): under either strategy the confidenceScore detect returns lies
\* within the clamp bounds 0.51 and 0.99.
C1_ConfidenceWithinClamp ==
    Returned => ClampLow <= call.confidenceScore /\ call.confidenceScore <= ClampHigh

\* the probabilities after the jitter adjustment: the jitter goes to the
\* probability of the winning class
AdjustedAI ==
    IF call.classification = AI_GENERATED
    THEN RatAdd(call.ai_probability.r, call.noise) ELSE call.ai_probability.r
AdjustedHuman ==
    IF call.classification = AI_GENERATED
    THEN call.human_probability.r ELSE RatAdd(call.human_probability.r, call.noise)

\* C2 (as stated): the heuristic label is AI_GENERATED exactly when the
\* ai-probability after the jitter adjustment is strictly greater than the
\* human-probability after the jitter adjustment, for every jitter.
C2_LabelFollowsAdjusted ==
    ReturnedHeuristic =>
        (call.classification = AI_GENERATED <=> RatLT(AdjustedHuman, AdjustedAI))

\* C2 (amended): for every pair of accumulated scores and every jitter, the
\* heuristic label is AI_GENERATED exactly when the ai-probability the code
\* computed before the jitter is strictly greater than the human-probability it
\* computed before the jitter, and HUMAN otherwise; equal scores give HUMAN.
C2_LabelFollowsUnadjusted ==
    ReturnedHeuristic =>
        /\ call.classification \in {AI_GENERATED, HUMAN}
        /\ call.classification = AI_GENERATED
              <=> FloatGT(call.ai_probability.f, call.human_probability.f)
        /\ call.ai_score.f = call.human_score.f => call.classification = HUMAN

\* equal positive scores and a negative jitter
C2_Witness ==
    /\ ReturnedHeuristic
    /\ call.ai_score.cents > 0
    /\ call.ai_score.f = call.human_score.f
    /\ call.noise.n < 0
    /\ call.classification = HUMAN

\* C3: the explanation of every result detect returns is a non-empty string, for
\* both labels, under both strategies, whether or not a tag or threshold fired.
C3_ExplanationNonEmpty ==
    Returned =>
        /\ call.explanation # <<>>
        /\ \A i \in DOMAIN call.explanation : call.explanation[i] # ""

\* a heuristic HUMAN result for which no HUMAN indicator was detected
C3_Witness ==
    /\ ReturnedHeuristic
    /\ call.classification = HUMAN
    /\ Detected(call.detected_indicators, HUMAN_INDICATORS) = <<>>
    /\ call.explanation # <<>>

\* zero variation in every measured ratio, with a positive pitch mean
ZeroVariation(features) ==
    /\ features["pitch_std"] = 0 /\ features["pitch_mean"] > 0
    /\ features["spectral_centroid_std"] = 0
    /\ features["zcr_std"] = 0
    /\ features["rms_std"] = 0
    /\ features["spectral_bandwidth_std"] = 0
    /\ features["spectral_rolloff_std"] = 0
    /\ \A i \in DOMAIN features["mfcc_std"] : features["mfcc_std"][i] = 0
    /\ MaxSeq(features["spectral_contrast_mean"]) = MinSeq(features["spectral_contrast_mean"])
    /\ MaxSeq(features["mfcc_delta_mean"]) = MinSeq(features["mfcc_delta_mean"])
    /\ features["mel_spec_std"] = 0

\* every rule added its weight to ai_score and none to human_score
AllRulesAI ==
    /\ call.ai_score.cents = 100
    /\ call.human_score.cents = 0
    /\ \A k \in 1..10 : call.trace[k + 1].ai_score.cents > call.trace[k].ai_score.cents

\* C4 (as stated): for a zero-variation feature vector every rule matches its AI
\* side, human_score stays 0, the label is AI_GENERATED and the tag list is the
\* eight AI tags of the pitch, centroid, zero-crossing, RMS, MFCC, contrast,
\* mel-spectrogram and bandwidth rules, in that order.
C4_EightTags ==
    ReturnedHeuristic /\ ZeroVariation(call.features) =>
        /\ AllRulesAI
        /\ call.classification = AI_GENERATED
        /\ call.detected_indicators =
              <<"pitch_consistency", "spectral_uniformity", "robotic_patterns",
                "compressed_dynamics", "artificial_smoothness", "synthetic_harmonics",
                "missing_micro_variations", "metallic_overtones">>

\* C4 (amended): for a zero-variation feature vector every rule matches its AI
\* side, human_score stays 0, the label is AI_GENERATED and the tag list is the
\* nine AI tags the rules append, in evaluation order: the eight of the claim
\* with the tag of the MFCC-delta rule (perfect_tempo) between those of the
\* spectral-contrast rule and the mel-spectrogram rule.
C4_NineTags ==
    ReturnedHeuristic /\ ZeroVariation(call.features) =>
        /\ AllRulesAI
        /\ call.classification = AI_GENERATED
        /\ call.detected_indicators =
              <<"pitch_consistency", "spectral_uniformity", "robotic_patterns",
                "compressed_dynamics", "artificial_smoothness", "synthetic_harmonics",
                "perfect_tempo",
                "missing_micro_variations", "metallic_overtones">>

\* a zero-variation vector has been scored
C4_Witness ==
    /\ ReturnedHeuristic
    /\ ZeroVariation(call.features)
    /\ call.features["spectral_centroid_mean"] > 0
    /\ Len(call.detected_indicators) = 9

\* C5: when no rule matches (ai_score = human_score = 0) scoring ends without an
\* error and uses the default prior 0.45 / 0.55: the label is HUMAN, the
\* confidence is the human prior plus the jitter, clamped to the bounds, and the
\* explanation is the generic human phrase.
C5_DefaultPrior ==
    /\ pc = "returned" /\ call.strategy = "heuristic" => call.outcome = "ok"
    /\ ReturnedHeuristic /\ call.ai_score.cents = 0 /\ call.human_score.cents = 0 =>
        /\ RatEq(call.ai_probability.r, Rat(45, 100))
        /\ RatEq(call.human_probability.r, Rat(55, 100))
        /\ call.classification = HUMAN
        /\ RatEq(call.confidence, Clamp(Rat(55, 100), call.noise))
        /\ call.confidenceScore \in Round2(Clamp(Rat(55, 100), call.noise), FALSE)
        /\ call.explanation = <<"Natural", "human", "voice", "characteristics", "detected">>

\* no rule matched, and the jitter was negative
C5_Witness ==
    /\ ReturnedHeuristic
    /\ call.ai_score.cents = 0 /\ call.human_score.cents = 0
    /\ call.detected_indicators = <<>>
    /\ call.noise.n < 0
    /\ call.confidenceScore < 55

\* the ratio rules and the mean each of them divides by
RatioRules == {1, 2, 3, 4, 9, 10}
MeanKey(k) ==
    CASE k = 1 -> "pitch_mean"  [] k = 2 -> "spectral_centroid_mean"
      [] k = 3 -> "zcr_mean"    [] k = 4 -> "rms_mean"
      [] k = 9 -> "spectral_bandwidth_mean" [] OTHER -> "spectral_rolloff_mean"

\* C6 (as stated): a ratio rule whose mean is <= 0 is skipped: it adds nothing to
\* ai_score or human_score and appends no tag.
C6_ZeroMeanSkipped ==
    ReturnedHeuristic =>
        \A k \in RatioRules :
            call.features[MeanKey(k)] <= 0 => call.trace[k + 1] = call.trace[k]

\* the phrases that fired for the winning label, in evaluation order
FiredPhrases ==
    IF call.strategy = "heuristic"
    THEN IF call.classification = AI_GENERATED
         THEN LET d == Detected(call.detected_indicators, AI_INDICATORS)
              IN  [i \in DOMAIN d |-> AI_INDICATORS[d[i]]]
         ELSE LET d == Detected(call.detected_indicators, HUMAN_INDICATORS)
              IN  [i \in DOMAIN d |-> HUMAN_INDICATORS[d[i]]]
    ELSE IF call.classification = AI_GENERATED
         THEN AIReasons(call.features) ELSE HumanReasons(call.features)

\* the phrases that fired for the losing label
LosingPhrases ==
    IF call.strategy = "heuristic"
    THEN IF call.classification = AI_GENERATED
         THEN LET d == Detected(call.detected_indicators, HUMAN_INDICATORS)
              IN  [i \in DOMAIN d |-> HUMAN_INDICATORS[d[i]]]
         ELSE LET d == Detected(call.detected_indicators, AI_INDICATORS)
              IN  [i \in DOMAIN d |-> AI_INDICATORS[d[i]]]
    ELSE IF call.classification = AI_GENERATED
         THEN HumanReasons(call.features) ELSE AIReasons(call.features)

\* C7 (as stated): when nothing fired for the winning label the explanation is
\* exactly the generic phrase of the label, letter case aside: "synthetic voice
\* patterns detected" for AI_GENERATED, "natural human voice characteristics
\* detected" for HUMAN, under both strategies.
C7_GenericPhrase ==
    Returned /\ FiredPhrases = <<>> =>
        Lower(call.explanation) =
            IF call.classification = AI_GENERATED
            THEN <<"synthetic", "voice", "patterns", "detected">>
            ELSE <<"natural", "human", "voice", "characteristics", "detected">>

\* the label-specific connective
Connective ==
    IF call.classification = AI_GENERATED THEN <<"and">>
    ELSE IF call.strategy = "heuristic" THEN <<"along", "with">> ELSE <<"with">>

\* `phrase` occurs in `text` as a run of consecutive words
Contains(text, phrase) ==
    \E i \in 0..(Len(text) - Len(phrase)) :
        \A j \in 1..Len(phrase) : text[i + j] = phrase[j]

\* no phrase of a third or later fired tag, and none of the losing label
NoOtherPhrase ==
    /\ \A i \in DOMAIN FiredPhrases :
           i >= 3 => ~Contains(Lower(call.explanation), Lower(FiredPhrases[i]))
    /\ \A i \in DOMAIN LosingPhrases :
           ~Contains(Lower(call.explanation), Lower(LosingPhrases[i]))

\* C8 (as stated): when something fired for the winning label the explanation
\* is, letter case aside, the phrase of the first fired tag alone, or the phrases
\* of the first two joined by the connective; no third or later phrase and no
\* phrase of the losing label appears.
C8_FirstTwoPhrases ==
    Returned /\ FiredPhrases # <<>> =>
        /\ Lower(call.explanation) =
              IF Len(FiredPhrases) = 1 THEN Lower(FiredPhrases[1])
              ELSE Lower(FiredPhrases[1] \o Connective \o FiredPhrases[2])
        /\ NoOtherPhrase

\* C8 (amended): when something fired for the winning label the explanation is
\* the phrase of the first fired tag (capitalised under the trained-model
\* strategy), followed, when a second tag fired, by the connective and the
\* lower-cased phrase of the second, and, for an AI_GENERATED result of the
\* trained-model strategy, by the closing word "detected"; no third or later
\* phrase and no phrase of the losing label appears.
C8_FirstTwoPhrasesTemplate ==
    Returned /\ FiredPhrases # <<>> =>
        /\ call.explanation =
              (IF call.strategy = "ml" THEN Capitalize(FiredPhrases[1]) ELSE FiredPhrases[1])
              \o (IF Len(FiredPhrases) > 1
                  THEN Connective \o Lower(FiredPhrases[2]) ELSE <<>>)
              \o (IF call.strategy = "ml" /\ call.classification = AI_GENERATED
                  THEN <<"detected">> ELSE <<>>)
        /\ NoOtherPhrase

\* three or more tags of the winning label fired after a tag of the losing label
C8_Witness ==
    /\ ReturnedHeuristic
    /\ call.classification = AI_GENERATED
    /\ Len(FiredPhrases) >= 3
    /\ LosingPhrases # <<>>
    /\ call.detected_indicators[1] \in DOMAIN HUMAN_INDICATORS

\* the strategy the artifact found at construction stands for
StrategyAtConstruction == IF artifact = "valid" THEN "ml" ELSE "heuristic"

\* C9: construction completes without raising whatever the model artifact is and
\* sets the strategy (trained model if the artifact loaded, heuristic rules if it
\* is absent or failed to load); no call of detect, returning or raising, changes
\* self.model; every call that scores uses the strategy set at construction.
C9_StrategyFixed ==
    [][ /\ pc = "start" =>
              /\ pc' = "idle"
              /\ model' = IF artifact = "valid" THEN "loaded" ELSE "None"
        /\ pc # "start" => model' = model
        /\ pc' # "crashed"
        /\ pc' = "returned" =>
              /\ call'.outcome = "ok" => call'.strategy = StrategyAtConstruction
              /\ call'.strategy \in {StrategyAtConstruction, "none"}
      ]_vars

\* a call scored by the rules after the load of the artifact failed
C9_Witness ==
    /\ pc = "returned"
    /\ artifact = "corrupt"
    /\ model = "None"
    /\ call.outcome = "ok"
    /\ call.strategy = "heuristic"

\* C10 (as stated): under the trained-model strategy the confidence reported is
\* the model's probability of the predicted class, rounded to two decimals.
C10_ConfidenceOfPredictedClass ==
    ReturnedML =>
        call.confidenceScore \in
            Round2(call.probabilities[call.prediction + 1],
                   ExactDouble(call.probabilities[call.prediction + 1]))

\* the place of array key i in the flattened array of a complete dictionary
ArrayLen(i) ==
    CASE i = 4 -> ContrastLen [] i = 5 -> ChromaLen [] OTHER -> MfccLen
RECURSIVE ArrayOffset(_)
ArrayOffset(i) == IF i = 1 THEN Len(ScalarKeys) ELSE ArrayOffset(i - 1) + ArrayLen(i - 1)

\* C11 (as stated): the flattened array has the same length and the same index
\* for every feature whatever keys are absent: scalar key i at index i (0 when
\* absent), then the array keys in their order, each at its fixed offset.
C11_FixedLayout ==
    flat # <<>> =>
        /\ Len(flat.flat_features) = ArrayOffset(5) + ArrayLen(5)
        /\ \A i \in 1..Len(ScalarKeys) :
               flat.flat_features[i] = Get(flat.features, ScalarKeys[i], 0)
        /\ \A i \in 1..Len(ArrayKeys) :
               ArrayKeys[i] \in DOMAIN flat.features =>
                   \A j \in 1..ArrayLen(i) :
                       flat.flat_features[ArrayOffset(i) + j] = flat.features[ArrayKeys[i]][j]

\* a handling is under way, or its response has not been sent yet
Handled == request # <<>>

\* the text is not valid base64: it holds a character outside the alphabet, or
\* its padding is wrong
NotValidBase64(text) == text.foreign > 0 \/ B64Decode(text).raised

\* the text is valid base64 of fewer than MinDecoded bytes
DecodesShort(text) == ~NotValidBase64(text) /\ B64Decode(text).length < MinDecoded

\* C12 (as stated): a text that is not valid base64 (characters outside the
\* alphabet included), or that decodes to fewer than 100 bytes, fails with a
\* decode error in the validator or in decode_base64_audio, and no temporary
\* file, audio loading, feature extraction or scoring follows.
C12_DecodeFailureStopsPipeline ==
    (Handled /\ (NotValidBase64(request.req.audioBase64) \/ DecodesShort(request.req.audioBase64)))
        => /\ request.done \cap {"tempfile", "load", "extract", "score"} = {}
           /\ request.at \notin {"tempfile", "write", "load", "extract", "score", "build"}

\* C13 (as stated): outside load_audio_from_bytes its temporary file does not
\* exist, whichever way the function was left: by return, by a failure while
\* writing the bytes, or by a failure while loading; a decode failure creates none.
C13_TempFileRemoved ==
    (Handled /\ request.at \notin {"write", "load"}) => request.tmp_file = "none"

\* C14 (as stated): when the bytes cannot be parsed, or the signal is empty or
\* shorter than the minimum duration, loading fails with an audio-load error and
\* feature extraction does not start.
C14_ShortSignalNotExtracted ==
    (Handled /\ "load" \in request.done
             /\ (~request.req.audioBase64.parses \/ request.req.audioBase64.samples = 0))
        => /\ request.at \in {"except", "respond"}
           /\ request.exc = ValueError(<<"Failed to load audio", "NoBackendError">>)
           /\ "extract" \notin request.done

\* the response of the handling has been produced and not yet sent
Responded == Handled /\ request.at = "respond"

\* decode_base64_audio raised inside detect; load_audio_from_bytes raised in its
\* try statement
DecodeFailed == "decode" \in request.done /\ B64Decode(request.req.audioBase64).raised
LoadFailed == "load" \in request.done /\ ~request.req.audioBase64.parses

\* C15: a decode failure or an audio-load failure inside detect is answered
\* with status 400 and the failure's text as the message, never with 500 and
\* never with a success.
C15_DecodeLoadFailureIs400 ==
    (Responded /\ (DecodeFailed \/ LoadFailed))
        => /\ request.response.status_code = 400
           /\ request.response.body.detail.status = "error"
           /\ request.response.body.detail.message =
                  (IF LoadFailed THEN <<"Failed to load audio", "NoBackendError">>
                   ELSE <<"Failed to decode base64 audio", "binascii.Error">>)

\* C15 witness: librosa.load raised and the response has been produced
C15_Witness == Responded /\ LoadFailed /\ request.response.status_code = 400

\* C16 (as stated): the body of every response that is not a success is the
\* object {status: "error", message: <string>}.
C16_ErrorBodyShape ==
    (Responded /\ request.response.status_code # 200)
        => /\ DOMAIN request.response.body = {"status", "message"}
           /\ request.response.body.status = "error"

\* the language of the request is not a supported one
Unsupported == Handled /\ request.req.language \notin settings.SUPPORTED_LANGUAGES

\* C17 (as stated): for a request with an unsupported language no base64
\* decoding of the audio, no temporary file, no loading and no feature
\* extraction is performed.
C17_NoProcessingForUnsupported ==
    Unsupported => request.done = {}

\* C17 (amended): for a request with an unsupported language detect is never
\* entered (no temporary file, no loading, no extraction, no scoring, no
\* decoding by decode_base64_audio) and the response is a rejection; the only
\* base64 decoding is the one of the request validator.
C17_OnlyValidatorDecodes ==
    Unsupported
        => /\ request.done \subseteq {"validator_decode"}
           /\ request.at \in {"body", "auth", "validate", "route", "except", "respond"}
           /\ request.tmp_file = "none"
           /\ request.at = "respond" => request.response.status_code \in {400, 401, 403, 422}

\* C17 witness: the language check of detect_voice has rejected a request that
\* passed the validator
C17_Witness ==
    /\ Unsupported /\ request.at = "respond"
    /\ request.response.status_code = 400
    /\ request.done = {"validator_decode"}

C19_SuccessResponseShape ==
    (Responded /\ request.response.status_code = 200)
        => LET body == request.response.body
           IN  /\ body.status = "success"
               /\ body.language = request.req.language
               /\ body.language \in LanguageEnum
               /\ body.classification \in {AI_GENERATED, HUMAN}
               /\ ~RatLT(body.confidenceScore, Rat(0, 1))
               /\ ~RatLT(Rat(1, 1), body.confidenceScore)
               /\ (100 * body.confidenceScore.n) % body.confidenceScore.d = 0
               /\ DOMAIN body.explanation = 1..Len(body.explanation)
               /\ body.explanation # <<>>

\* C19 witness: a success response of the heuristic strategy
C19_Witness ==
    /\ Responded /\ request.response.status_code = 200
    /\ Strategy(model) = "heuristic"
    /\ request.response.body.classification = AI_GENERATED

\* C22 (as stated): the trained model is the only state requests share and it
\* is not written after construction; no process-wide object (the detector, the
\* audio processor, the settings) is modified while a request is served.
C22_NoProcessWideWrite ==
    [][Handled => /\ model' = model
                  /\ audio_processor' = audio_processor
                  /\ settings' = settings]_vars

\* the call of loader w holds a temporary file: it has created it and not yet
\* removed it
HoldsFile(w) == loading.calls[w].at \in {"write", "load", "remove"}

\* C21: two concurrent calls of load_audio_from_bytes hold files of different
\* names, each call's name denotes the file it created itself, and the file a
\* call loaded and the file it removed are its own.
C21_OwnTempFile ==
    loading # <<>> =>
        \A w \in Loaders :
            /\ HoldsFile(w) => loading.files[loading.calls[w].tmp_path] = w
            /\ \A v \in Loaders \ {w} :
                   (HoldsFile(w) /\ HoldsFile(v))
                       => loading.calls[w].tmp_path # loading.calls[v].tmp_path
            /\ loading.calls[w].loaded \in {"none", w}
            /\ loading.calls[w].removed \in {"none", w}

\* C21 witness: one call has removed its file while the other, which created
\* its file in between, is still to load it
C21_Witness ==
    /\ loading # <<>>
    /\ loading.calls["first"].at = "left" /\ loading.calls["first"].removed = "first"
    /\ loading.calls["second"].at = "load"

\* the keys extract_features assigns, in the order of its twelve steps
FeatureKeys ==
    {"mfcc_mean", "mfcc_std", "mfcc_delta_mean",
     "spectral_centroid_mean", "spectral_centroid_std",
     "spectral_bandwidth_mean", "spectral_bandwidth_std",
     "spectral_contrast_mean",
     "spectral_rolloff_mean", "spectral_rolloff_std",
     "zcr_mean", "zcr_std", "rms_mean", "rms_std",
     "pitch_mean", "pitch_std", "pitch_range",
     "tempo", "mel_spec_mean", "mel_spec_std",
     "chroma_mean", "chroma_std", "duration"}

\* extract_features has been called for the request and has returned; has raised
Extracted == Handled /\ "extract" \in request.done /\ request.signal # <<>>
ExtractionFailed == Handled /\ "extract" \in request.done /\ request.signal = <<>>

\* C23: a successful extraction returns a dictionary with the same keys for
\* every signal; without a positive pitch value pitch_mean, pitch_std and
\* pitch_range are present and 0; a failing extraction returns no dictionary.
C23_FixedKeys ==
    /\ Extracted =>
          /\ DOMAIN request.features = FeatureKeys
          /\ ~Voiced(request.signal) =>
                 /\ request.features["pitch_mean"] = 0
                 /\ request.features["pitch_std"] = 0
                 /\ request.features["pitch_range"] = 0
    /\ ExtractionFailed =>
          /\ request.features = <<>>
          /\ request.result = <<>>
          /\ request.at \in {"except", "respond"}

\* C23 witness: the features of a signal without pitch have reached scoring
C23_Witness == Extracted /\ ~Voiced(request.signal) /\ request.at = "build"

\* the stages of detect, in the order of the code
Stages == <<"decode", "load", "extract", "score">>

\* stage i of the request's handling has run and has not raised
StageSucceeded(i) ==
    /\ Stages[i] \in request.done
    /\ CASE i = 1 -> ~B64Decode(request.req.audioBase64).raised
         [] i = 2 -> request.req.audioBase64.parses
         [] i = 3 -> request.signal # <<>>
         [] OTHER -> request.result # <<>>

\* C24: decoding, loading, feature extraction and scoring run in that order; a
\* stage has started only if every earlier stage of the request succeeded, and a
\* classification result exists only if every stage succeeded.
C24_StageOrder ==
    Handled =>
        /\ \A i \in 2..4 : Stages[i] \in request.done => StageSucceeded(i - 1)
        /\ "tempfile" \in request.done => StageSucceeded(1)
        /\ request.features # <<>> => StageSucceeded(3)
        /\ request.result # <<>> => \A i \in 1..4 : StageSucceeded(i)
        /\ (request.at = "respond" /\ request.response.status_code = 200)
               => request.result # <<>>

\* C24 witness: librosa.load raised, and the handling has ended without a
\* later stage
C24_Witness ==
    /\ Responded /\ LoadFailed
    /\ request.done = {"validator_decode", "decode", "tempfile", "load"}
    /\ request.result = <<>>

\* the sequence s holds no element twice
NoDuplicates(s) == \A i, j \in 1..Len(s) : s[i] = s[j] => i = j

\* s is t, or t with elements appended
Extends(s, t) == Len(s) >= Len(t) /\ SubSeq(s, 1, Len(t)) = t

\* the total did not go down, as a decimal and as the double the code holds
NotDecreased(before, after) ==
    /\ after.cents >= before.cents
    /\ ~L2GT(before.f, after.f)

\* C25: the totals and the tag list are empty before rule 1; every rule leaves
\* both totals non-negative and not smaller than before, changes at most one of
\* them, and only appends to the tag list, which never holds a tag twice.
C25_AccumulatorInvariant ==
    ReturnedHeuristic =>
        /\ Len(call.trace) = 11
        /\ call.trace[1].ai_score.cents = 0 /\ call.trace[1].ai_score.f = L2Zero
        /\ call.trace[1].human_score.cents = 0 /\ call.trace[1].human_score.f = L2Zero
        /\ call.trace[1].detected_indicators = <<>>
        /\ \A k \in 1..10 :
             LET before == call.trace[k]
                 after  == call.trace[k + 1]
             IN  /\ after.ai_score.cents >= 0 /\ after.human_score.cents >= 0
                 /\ NotDecreased(before.ai_score, after.ai_score)
                 /\ NotDecreased(before.human_score, after.human_score)
                 /\ after.ai_score = before.ai_score \/ after.human_score = before.human_score
                 /\ Extends(after.detected_indicators, before.detected_indicators)
                 /\ Len(after.detected_indicators) <= Len(before.detected_indicators) + 1
                 /\ NoDuplicates(after.detected_indicators)
        /\ call.detected_indicators = call.trace[11].detected_indicators

\* C25 witness: a call in which both totals grew and several tags were appended
C25_Witness ==
    /\ ReturnedHeuristic
    /\ call.ai_score.cents > 0 /\ call.human_score.cents > 0
    /\ Len(call.detected_indicators) >= 2

\* the same feature vector has been scored twice by the heuristic strategy
ScoredTwice ==
    /\ Len(runs) = 2
    /\ runs[1].features = runs[2].features
    /\ runs[1].draw.strategy = "heuristic" /\ runs[2].draw.strategy = "heuristic"

\* the fraction x in lowest terms
Lowest(x) == Rat(x.n \div GCD(x.n, x.d), x.d \div GCD(x.n, x.d))

\* x <= y + c / 100
WithinCents(x, y, c) ==
    LET a == Lowest(x)
        b == Lowest(y)
    IN  100 * (a.n * b.d - b.n * a.d) <= c * a.d * b.d

\* C26: two heuristic scorings of the same feature vector, with any two jitter
\* values, give the same label, the same tags and the same explanation; their
\* confidences before rounding differ by at most 0.04.
C26_JitterOnlyMovesConfidence ==
    ScoredTwice =>
        /\ runs[1].classification = runs[2].classification
        /\ runs[1].detected_indicators = runs[2].detected_indicators
        /\ runs[1].explanation = runs[2].explanation
        /\ WithinCents(runs[1].confidence, runs[2].confidence, 2 * NoiseMax)
        /\ WithinCents(runs[2].confidence, runs[1].confidence, 2 * NoiseMax)

\* C26 witness: the two probabilities are equal, and the two jitter values are
\* the extreme ones
C26_Witness ==
    /\ ScoredTwice
    /\ runs[1].ai_score.cents = runs[1].human_score.cents /\ runs[1].ai_score.cents > 0
    /\ RatEq(runs[1].draw.noise, Rat(0 - NoiseMax, 100))
    /\ RatEq(runs[2].draw.noise, Rat(NoiseMax, 100))
    /\ ~RatEq(runs[1].confidence, runs[2].confidence)

\* run i scored, by the heuristic strategy, a dictionary without the keys of
\* the rules 2, 3, 4, 8, 9 and 10
ScoredWithoutRatioKeys(i) ==
    /\ i <= Len(runs)
    /\ runs[i].draw.strategy = "heuristic"
    /\ DOMAIN runs[i].features \cap RatioKeys = {}

\* C27: when the entries of the spectral-centroid, zero-crossing, RMS,
\* mel-spectrogram, bandwidth and rolloff rules are absent, each of the six rules
\* adds its weight to ai_score; the empty dictionary gives ai_score 0.57,
\* human_score 0 and AI_GENERATED, not the default prior.
C27_AbsentCountsAsAI ==
    \A i \in 1..2 :
        ScoredWithoutRatioKeys(i) =>
            /\ {2, 3, 4, 8, 9, 10} \subseteq runs[i].ai_rules
            /\ runs[i].ai_score.cents >= 57
            /\ DOMAIN runs[i].features = {} =>
                   /\ runs[i].ai_rules = {2, 3, 4, 8, 9, 10}
                   /\ runs[i].ai_score.cents = 57
                   /\ runs[i].human_score.cents = 0
                   /\ runs[i].detected_indicators =
                          <<"spectral_uniformity", "robotic_patterns", "compressed_dynamics",
                            "missing_micro_variations", "metallic_overtones">>
                   /\ runs[i].classification = AI_GENERATED
                   /\ RatEq(runs[i].confidence, Clamp(Rat(1, 1), runs[i].draw.noise))

\* C27 witness: the empty dictionary has been scored
C27_Witness ==
    /\ ScoredWithoutRatioKeys(1)
    /\ DOMAIN runs[1].features = {}
    /\ runs[1].classification = AI_GENERATED

\* an exception reached the except clauses of detect_voice and was answered
Excepted == Responded /\ request.exc # <<>>

GenericMessage == <<"An internal error occurred while processing the audio">>

\* C28: a ValueError raised inside detect (decoding, loading, feature
\* extraction, trained-model scoring) is answered with status 400 and the
\* exception's text as the message; any other exception with status 500 and one
\* fixed message that holds nothing of the exception's text; an HTTPException
\* raised in the handler with its own status and its own detail.
C28_ErrorMapping ==
    Excepted =>
        CASE request.exc.type = "HTTPException" ->
                 /\ request.response.status_code = request.exc.status_code
                 /\ request.response.body.detail = request.exc.detail
          [] request.exc.type = "ValueError" ->
                 /\ request.response.status_code = 400
                 /\ request.response.body.detail.status = "error"
                 /\ request.response.body.detail.message = request.exc.message
          [] OTHER ->
                 /\ request.response.status_code = 500
                 /\ request.response.body.detail.status = "error"
                 /\ request.response.body.detail.message = GenericMessage
                 /\ \A i \in DOMAIN request.exc.message :
                        \A k \in DOMAIN request.response.body.detail.message :
                            request.response.body.detail.message[k] # request.exc.message[i]

\* C28 witness: the trained model raised a ValueError, and it was answered 400
C28_Witness ==
    /\ Excepted
    /\ "score" \in request.done
    /\ request.exc.type = "ValueError"
    /\ request.response.status_code = 400

\* two requests with the same audio and the same jitter, in two languages that
\* are both accepted
SameAudioTwoLanguages ==
    /\ Len(runs) = 2
    /\ runs[1].features = runs[2].features
    /\ runs[1].draw = runs[2].draw
    /\ runs[1].language # runs[2].language
    /\ runs[1].accepted /\ runs[2].accepted

\* C29: each of the five supported languages is accepted and echoed; the same
\* audio with the same jitter in two supported languages gets the same label,
\* the same confidence and the same explanation.
C29_LanguageDoesNotInfluence ==
    /\ \A i \in 1..2 :
           (i <= Len(runs)
              /\ runs[i].language \in {"Tamil", "English", "Hindi", "Malayalam", "Telugu"})
               => /\ runs[i].accepted
                  /\ runs[i].result.language = runs[i].language
    /\ SameAudioTwoLanguages =>
           /\ runs[1].result.classification = runs[2].result.classification
           /\ runs[1].result.confidenceScore = runs[2].result.confidenceScore
           /\ runs[1].result.explanation = runs[2].result.explanation
           /\ runs[1].result.language # runs[2].result.language

\* C29 witness: the same audio was classified HUMAN in Tamil and in English
C29_Witness ==
    /\ SameAudioTwoLanguages
    /\ runs[1].language = "Tamil" /\ runs[2].language = "English"
    /\ runs[1].result.classification = HUMAN
    /\ runs[2].result.classification = HUMAN
====
